---- MODULE Spec2Model ----
(***************************************************************************)
(* Orchestration engine of agentic_engine: the asynchronous workflow       *)
(* traversal of EnhancedOrchestrator (fork-join per node, independent      *)
(* probabilistic edges), the tiered tool dispatch of execute_with_fallback,*)
(* and the Decision ledger kept in the Neo4j store (save_decision,         *)
(* resolve_decision, get_decision_queue, the dashboard's approve route).   *)
(*                                                                         *)
(* Probabilities are integers in hundredths (0.8 is 80, 1.0 is 100).       *)
(***************************************************************************)
EXTENDS Integers, Sequences, FiniteSets, TLC

\* ------------------------------------------------------------------ bounds
\* Node execution attempts (calls of _run_agent_recursive) per run.
MaxAttempts == 4
\* Operations of other processes on the store while a run is in progress
\* (reads of the decision queue, dashboard approvals).
MaxExternal == 1

\* ------------------------------------------------------- program constants
\* max_len of the placeholder embedding
EmbedWidth == 20

\* ------------------------------------------------------------------- names
API_Tool == "API_Tool"
RPA_Tool == "RPA_Tool"
Selenium_RPA_Tool == "Selenium_RPA_Tool"

\* A null edge target (Python None).
None == "None"

\* ord(c) of the characters of the names that are embedded.
Ord(text) ==
    CASE text = "API_Tool"          -> <<65, 80, 73, 95, 84, 111, 111, 108>>
      [] text = "RPA_Tool"          -> <<82, 80, 65, 95, 84, 111, 111, 108>>
      [] text = "Selenium_RPA_Tool" -> <<83, 101, 108, 101, 110, 105, 117, 109, 95,
                                         82, 80, 65, 95, 84, 111, 111, 108>>
      [] text = "Validator Agent"   -> <<86, 97, 108, 105, 100, 97, 116, 111, 114,
                                         32, 65, 103, 101, 110, 116>>
      [] text = "Executor Agent"    -> <<69, 120, 101, 99, 117, 116, 111, 114, 32,
                                         65, 103, 101, 110, 116>>
      [] text = "Auditor Agent"     -> <<65, 117, 100, 105, 116, 111, 114, 32, 65,
                                         103, 101, 110, 116>>
      [] text = "Reader"            -> <<82, 101, 97, 100, 101, 114>>
      [] text = "Validator"         -> <<86, 97, 108, 105, 100, 97, 116, 111, 114>>
      [] text = "Executor"          -> <<69, 120, 101, 99, 117, 116, 111, 114>>
      [] text = "Auditor"           -> <<65, 117, 100, 105, 116, 111, 114>>
      [] OTHER                      -> <<>>

\* _embed: the character codes, truncated to max_len and zero-padded.
Embed(text) ==
    [i \in 1..EmbedWidth |-> IF i <= Len(Ord(text)) THEN Ord(text)[i] ELSE 0]

RECURSIVE SumSq(_, _, _)
SumSq(u, v, i) ==
    IF i = 0 THEN 0 ELSE (u[i] - v[i]) * (u[i] - v[i]) + SumSq(u, v, i - 1)

\* The squared Euclidean distance IndexFlatL2 reports.
L2(u, v) == SumSq(u, v, EmbedWidth)

\* The texts that get embedded: the tool names of the index and the names of
\* the agents that are queried against it.
ToolNames == {API_Tool, RPA_Tool, Selenium_RPA_Tool}

QueryTexts == {"Validator Agent", "Executor Agent", "Auditor Agent", "Reader",
               "Validator", "Executor", "Auditor"}

\* D of index.search for each query text and each indexed tool name.
Distances ==
    [text \in QueryTexts |->
        [n \in ToolNames |-> L2(Embed(text), Embed(n))]]

Distance(text, name) ==
    IF text \in QueryTexts /\ name \in ToolNames
    THEN Distances[text][name]
    ELSE L2(Embed(text), Embed(name))

\* --------------------------------------------------------------- workflows
Edge(t, p) == [target |-> t, probability |-> p]

Node(i, n, ty, nx) == [id |-> i, name |-> n, type |-> ty, next |-> nx]

\* A workflow is the insertion-ordered list of its nodes (a Python dict).
Keys(wf) == [i \in DOMAIN wf |-> wf[i].id]

InWorkflow(wf, id) == \E i \in DOMAIN wf : wf[i].id = id

Agent(wf, id) == wf[CHOOSE i \in DOMAIN wf : wf[i].id = id]

\* Neo4jConnector._default_workflow
DefaultWorkflow ==
    << Node("agent_validator", "Validator Agent", "generic",
            << Edge("agent_executor", 80), Edge("agent_auditor", 20) >>),
       Node("agent_executor", "Executor Agent", "generic",
            << Edge("agent_auditor", 100) >>),
       Node("agent_auditor", "Auditor Agent", "generic", << >>) >>

\* A typed workflow of the audit pipeline (ingest, validate, execute, report)
\* with a null-target edge and an edge of probability 0.
TypedWorkflow ==
    << Node("ingest_agent", "Document Ingestor", "ingest",
            << Edge(None, 100), Edge("validate_agent", 100),
               Edge("report_agent", 0) >>),
       Node("validate_agent", "Audit Validator", "validation",
            << Edge("agent_executor", 100) >>),
       Node("agent_executor", "Executor", "execution",
            << Edge("report_agent", 50) >>),
       Node("report_agent", "Audit Reporter", "report", << >>) >>

\* Workflows handed to _run_agent_recursive directly.
InputWorkflows == {TypedWorkflow}

\* ------------------------------------------------------------ tool registry
\* An entry of ToolManager.tools: load_tools registers {"config", "instance":
\* None}; an entry with instance = TRUE holds a tool object (BaseTool).
Tool(n, inst) == [name |-> n, instance |-> inst]

NoTools == << >>

LiveTools ==
    << Tool(API_Tool, TRUE), Tool(RPA_Tool, TRUE), Tool(Selenium_RPA_Tool, TRUE) >>

MixedTools == << Tool(API_Tool, TRUE), Tool(RPA_Tool, FALSE) >>

PairTools == << Tool(API_Tool, TRUE), Tool(RPA_Tool, TRUE) >>

\* The orchestrators that can be constructed: the registry, and whether the
\* FAISS index could be created (self.index is None otherwise).
Orchestrators ==
    { [tools |-> NoTools,    index |-> TRUE],
      [tools |-> LiveTools,  index |-> TRUE],
      [tools |-> PairTools,  index |-> FALSE],
      [tools |-> MixedTools, index |-> TRUE] }

\* ------------------------------------------------------------------- store
Severities == {"low", "medium", "high"}

\* config/severity_policy.yaml as loaded: severity_levels, each with its
\* auto_approve flag; the empty map when the file is missing.
PolicyFiles ==
    { [s \in {"low", "medium"} |-> [auto_approve |-> TRUE]],
      [s \in {"low"} |-> [auto_approve |-> TRUE]] }

\* NEXT relationship properties.
Rel(p, l, u) == [probability |-> p, learned |-> l, uses |-> u]

\* A graph in the store, of the shape sample_data_loader and add_fallback_edge
\* write: Agent nodes, the agents the workflow is linked to by CAN_HANDLE, and
\* NEXT relationships. ERP and RPA_Tool are Agent nodes outside the workflow.
SampleGraph ==
    [agents  |-> {"Reader", "Validator", "ERP", "RPA_Tool"},
     handles |-> << "Reader", "Validator" >>,
     edges   |-> ( << "Reader", "Validator" >> :> Rel(100, FALSE, 0) ) @@
                 ( << "Reader", "ERP" >>       :> Rel(100, FALSE, 0) )]

\* The same graph with a back edge from Validator to Reader.
CyclicGraph ==
    [SampleGraph EXCEPT !.edges =
        @ @@ ( << "Validator", "Reader" >> :> Rel(100, FALSE, 0) )]

EmptyGraph == [agents |-> {}, handles |-> << >>, edges |-> << >>]

\* A fixed enumeration order for the rows a query returns.
AgentOrder == << "Reader", "Validator", "ERP", "RPA_Tool", "API_Tool" >>

NoValue == "null"

\* BaseToolAgent.__init__: both counters at 0.
NoMetrics == [execution_count |-> 0, success_count |-> 0]

\* No get_decision_queue call has been made.
NoCall == [limit |-> 0, severity |-> NoValue]

\* Supervisor.run_workflow has not been called.
NoSupervisor ==
    [pc |-> "idle", workflow |-> << >>, current |-> NoValue, steps |-> 0,
     edges |-> << >>, sample |-> 0, chosen |-> 0]

VARIABLES
    storeUp,      \* the Neo4j driver exists and the database answers
    graph,        \* Agent nodes, CAN_HANDLE membership and NEXT relationships
    decisions,    \* Decision nodes by id
    traces,       \* ExecutionTrace nodes
    clock,        \* datetime() of the store, as a counter
    policy,       \* Neo4jConnector.policy["severity_levels"]
    tools,        \* ToolManager.tools, in insertion order
    index,        \* EnhancedOrchestrator.index is not None
    workflow,     \* the snapshot a run traverses
    tasks,        \* the _run_agent_recursive calls of the run, by attempt
    pollQueue,    \* rows a get_decision_queue call has read and not yet handled
    pollAuto,     \* auto_apply_policy of that call
    pollArgs,     \* limit and severity of that call, NoCall before any call
    results,      \* the rows its query returned
    queue,        \* the list the call builds and returns
    pollSeen,     \* the Decision nodes as they were when the query ran
    pollHit,      \* the `in self.policy...` test of the row at hand, once made
    issued,       \* the edge feedback calls the store has served, in order
    metrics,      \* execution_count and success_count of one tool object
    workers,      \* the threads inside update_metrics of that tool
    sup,          \* the sequential run of Supervisor.run_workflow
    external      \* operations of other processes so far

callVars == << pollArgs, results, queue, pollSeen, pollHit >>

jobVars == << issued, metrics, workers, sup >>

vars == << storeUp, graph, decisions, traces, clock, policy, tools, index,
           workflow, tasks, pollQueue, pollAuto, callVars, jobVars, external >>

storeVars == << storeUp, graph, decisions, traces, clock, policy >>

Init ==
    /\ storeUp \in BOOLEAN
    /\ graph \in (IF storeUp THEN {EmptyGraph, CyclicGraph} ELSE {EmptyGraph})
    /\ decisions = << >>
    /\ traces = {}
    /\ clock = 0
    /\ policy = << >>
    /\ \E o \in Orchestrators : tools = o.tools /\ index = o.index
    /\ workflow = << >>
    /\ tasks = << >>
    /\ pollQueue = << >>
    /\ pollAuto = FALSE
    /\ pollArgs = NoCall
    /\ results = << >>
    /\ queue = << >>
    /\ pollSeen = << >>
    /\ pollHit = "unchecked"
    /\ issued = << >>
    /\ metrics = NoMetrics
    /\ workers = << >>
    /\ sup = NoSupervisor
    /\ external = 0

\* ------------------------------------------------------- store operations
\* Neo4jConnector.save_decision: MERGE on the id, then SET of every property
\* it is given (status and created_at included); skipped without a driver.
SaveDecision(decs, id, agent, recommendation, severity, status, now) ==
    IF id \in DOMAIN decs
    THEN [decs EXCEPT ![id] = [@ EXCEPT !.agent = agent,
                                        !.recommendation = recommendation,
                                        !.severity = severity,
                                        !.status = status,
                                        !.created_at = now]]
    ELSE decs @@ (id :> [agent |-> agent, recommendation |-> recommendation,
                         severity |-> severity, status |-> status,
                         created_at |-> now, choice |-> NoValue,
                         resolved_by |-> NoValue])

\* Neo4jConnector.resolve_decision: MATCH on the id, then SET status, choice
\* and resolved_by, whatever the status was.
ResolveDecision(decs, id, choice, status, resolved_by) ==
    IF id \in DOMAIN decs
    THEN [decs EXCEPT ![id] = [@ EXCEPT !.status = status,
                                        !.choice = choice,
                                        !.resolved_by = resolved_by]]
    ELSE decs

\* web_dashboard.approve_decision: SET status and choice on the matched id.
ApproveDecision(decs, id, choice) ==
    IF id \in DOMAIN decs
    THEN [decs EXCEPT ![id] = [@ EXCEPT !.status = "approved", !.choice = choice]]
    ELSE decs

\* Neo4jConnector.add_fallback_edge: both Agent nodes must match; MERGE of the
\* NEXT relationship, created learned with uses 1, or strengthened.
AddFallbackEdge(g, from_agent, to_agent, prob) ==
    IF from_agent \in g.agents /\ to_agent \in g.agents
    THEN IF << from_agent, to_agent >> \in DOMAIN g.edges
         THEN [g EXCEPT !.edges[<< from_agent, to_agent >>] =
                   Rel(@.probability + prob, @.learned, @.uses + 1)]
         ELSE [g EXCEPT !.edges =
                   @ @@ (<< from_agent, to_agent >> :> Rel(prob, TRUE, 1))]
    ELSE g

\* The rows of collect(...) for one agent: its NEXT relationships.
EdgesFrom(g, a) ==
    LET targets == SelectSeq(AgentOrder, LAMBDA t : << a, t >> \in DOMAIN g.edges)
    IN  [i \in DOMAIN targets |->
            Edge(targets[i], g.edges[<< a, targets[i] >>].probability)]

\* load_workflow handing back the empty mapping without a driver.
LoadWorkflowOrEmpty(up, g) ==
    IF ~up THEN << >>
    ELSE [i \in DOMAIN g.handles |->
             Node(g.handles[i], g.handles[i], "generic", EdgesFrom(g, g.handles[i]))]

\* Neo4jConnector.load_workflow: the agents the workflow handles with their
\* NEXT edges, every type "generic"; the default workflow without a driver,
\* on a failed query or for an empty result.
LoadWorkflow(up, g) ==
    LET wf == [i \in DOMAIN g.handles |->
                  Node(g.handles[i], g.handles[i], "generic",
                       EdgesFrom(g, g.handles[i]))]
    IN  IF ~up \/ wf = << >> THEN DefaultWorkflow ELSE wf

\* The decision has a policy rule with auto_approve (get_decision_queue).
AutoApprove(pol, severity) ==
    severity \in DOMAIN pol /\ pol[severity].auto_approve

\* ------------------------------------------------------------ tool manager
\* ToolManager.list_tools
ListTools(reg) == [i \in DOMAIN reg |-> reg[i].name]

Registered(reg, n) == \E i \in DOMAIN reg : reg[i].name = n

Entry(reg, n) == reg[CHOOSE i \in DOMAIN reg : reg[i].name = n]

\* ToolManager.execute: a failure result for an unknown name; tool.execute of
\* the entry otherwise, which raises AttributeError on a placeholder entry
\* and returns success or failure from a tool object.
Outcomes(reg, n) ==
    IF ~Registered(reg, n) THEN {"fail"}
    ELSE IF Entry(reg, n).instance THEN {"ok", "fail"}
    ELSE {"raise"}

\* ------------------------------------------------------------ orchestrator
InSeq(s, x) == \E i \in DOMAIN s : s[i] = x

\* EnhancedOrchestrator.recommend_tool
RecommendTool(reg, agent) ==
    LET listed    == ListTools(reg)
        available == IF listed = << >> THEN << API_Tool, RPA_Tool >> ELSE listed
    IN  CASE agent.type = "validation" ->
               IF InSeq(available, API_Tool) THEN API_Tool ELSE available[1]
          [] agent.type = "execution" ->
               IF agent.name = "file_upload" /\ InSeq(available, Selenium_RPA_Tool)
               THEN Selenium_RPA_Tool
               ELSE IF InSeq(available, RPA_Tool) THEN RPA_Tool ELSE available[1]
          [] agent.type = "audit" ->
               IF InSeq(available, API_Tool) THEN API_Tool ELSE available[1]
          [] OTHER -> available[1]

\* The node types served by the ingest / validate / report tools directly.
PipelineTool(type) ==
    CASE type \in {"ingest", "reader"} -> "DocumentIngestTool"
      [] type \in {"validation", "validator"} -> "AuditValidatorTool"
      [] type \in {"report", "notify", "reporter", "audit_report"} -> "AuditReporterTool"
      [] OTHER -> NoValue

\* The fallback loop leaving out the first registered tool, whichever tool
\* was recommended.
FallbackOrderWithoutFirst(reg, tool_name) ==
    IF ListTools(reg) = << >> THEN << >> ELSE Tail(ListTools(reg))

\* The fallback loop without its test fallback != tool_name.
FallbackOrderUnskipped(reg, tool_name) == ListTools(reg)

\* The tools the fallback loop of execute_with_fallback tries, in order.
FallbackOrder(reg, tool_name) ==
    SelectSeq(ListTools(reg), LAMBDA f : f # tool_name)

\* index.search(query, k=1): the position in tool_names of the nearest
\* embedding, the first one on a tie.
Nearest(names, text) ==
    CHOOSE i \in DOMAIN names :
        \A j \in DOMAIN names :
            \/ Distance(text, names[i]) < Distance(text, names[j])
            \/ /\ Distance(text, names[i]) = Distance(text, names[j])
               /\ i <= j

\* random.random() <= prob
EdgeFiresInclusive(sample, prob) == sample <= prob

\* random.random() < prob
EdgeFires(sample, prob) == sample < prob

\* Values random.random() takes, in hundredths: [0, 1).
Samples == {0, 99}

\* The target test without the lookup in the workflow.
ValidTargetNotNull(wf, edge) == edge.target # None

\* An edge that may start a successor: a dict with a known, non-null target.
ValidTarget(wf, edge) == edge.target # None /\ InWorkflow(wf, edge.target)

\* A result dict of ToolManager.execute, named by the tool it came from.
Result(tool, success) == [tool |-> tool, success |-> success]

\* exec_result after the except clause of _run_agent_recursive.
Failed == Result("exception", FALSE)

NoResult == Result(NoValue, FALSE)

\* A resolve_decision call.
Call(choice, status, resolved_by) ==
    [choice |-> choice, status |-> status, resolved_by |-> resolved_by]

\* A tool call of one attempt: the tool, its outcome, and the tier that made it.
Invocation(tool, out, tier) == [tool |-> tool, out |-> out, tier |-> tier]

NewTask(node, parent) ==
    [node |-> node, parent |-> parent, pc |-> "new", rec |-> NoValue,
     stage |-> NoValue, idx |-> 0, invoked |-> << >>, resolved |-> << >>,
     result |-> NoResult, samples |-> << >>]

\* The resolve of step 1 with the actor of step 2.
PolicyCallByFallback(tool_name) == Call(tool_name, "approved", "fallback")

\* The resolve_decision calls of execute_with_fallback.
PolicyCall(tool_name) == Call(tool_name, "approved", "policy")

FallbackCall(fallback) == Call(fallback, "approved", "fallback")

VectorCall(best_match) == Call(best_match, "approved", "vector")

ExhaustedCall(tool_name) == Call("default", "completed", "system")

\* What execute_with_fallback returns when nothing succeeded: `result`, the
\* result of the recommended tool.
ExhaustedResult(tool_name, log) == Result(tool_name, FALSE)

\* The store after a resolve_decision call of this connector.
Resolved(decs, id, call) ==
    IF storeUp
    THEN ResolveDecision(decs, id, call.choice, call.status, call.resolved_by)
    ELSE decs

\* status of the ExecutionTrace: exec_result and exec_result.get("success", True)
TraceStatus(result) == IF result.success THEN "success" ELSE "failure"

\* The save_execution_trace call with one trace id for the whole run, as
\* sample_data_loader makes it.
TracePerRun(id, agent_id, status) ==
    [trace_id |-> 1, agent_id |-> agent_id, status |-> status]

Trace(id, agent_id, status) ==
    [trace_id |-> id, agent_id |-> agent_id, status |-> status]

\* A connector method with the store not answering, were it to let the
\* failure out to the coroutine that called it.
AfterStoreCallRaising(up, pc) == IF up THEN pc ELSE "aborted"

\* Where the calling coroutine stands after a connector method: every method
\* tests the driver and wraps its query in try/except, so the caller always
\* goes on to its next statement.
AfterStoreCall(up, pc) == pc

\* A tool call made by the coroutine itself: the event loop runs nothing else
\* while a call has not returned.
LoopHeldByCall(ts) == \A b \in DOMAIN ts : ts[b].stage # "hung"

\* The event loop can run a coroutine: every tool call is handed to a worker
\* thread by asyncio.to_thread, so a call in flight never holds the loop.
LoopFree(ts) == TRUE

\* The dispatch handed to the worker thread but not awaited.
DispatchedEarly(t) == t.pc \in {"dispatch", "ret"}

\* The await of asyncio.to_thread has returned: exec_result is set.
Dispatched(t) == t.pc = "ret"

\* Every child coroutine has been started, finished or not.
ChildrenStarted(ts, a) ==
    \A c \in DOMAIN ts : ts[c].parent = a => ts[c].pc # "new"

\* asyncio.gather(*tasks) has returned: every child coroutine has finished.
ChildrenDone(ts, a) ==
    \A c \in DOMAIN ts : ts[c].parent = a => ts[c].pc = "done"

\* ---------------------------------------------------------------- the run
\* current = list(workflow.keys())[0]: the key inserted first.
EntryNode(wf) == Keys(wf)[1]

\* EnhancedOrchestrator.run_workflow: load the workflow, start at its first key.
RunWorkflow ==
    /\ tasks = << >>
    /\ workflow = << >>
    /\ LET wf == LoadWorkflow(storeUp, graph)
       IN  /\ wf # << >>
           /\ workflow' = wf
           /\ tasks' = << NewTask(EntryNode(wf), 0) >>
    /\ UNCHANGED << storeVars, tools, index, pollQueue, pollAuto, callVars, jobVars, external >>

\* _run_agent_recursive called on a workflow of the caller.
RunAgentDirect ==
    /\ tasks = << >>
    /\ workflow = << >>
    /\ \E wf \in InputWorkflows :
           /\ workflow' = wf
           /\ tasks' = << NewTask(Keys(wf)[1], 0) >>
    /\ UNCHANGED << storeVars, tools, index, pollQueue, pollAuto, callVars, jobVars, external >>

\* _run_agent_recursive up to its first await: the defensive checks, the
\* recommendation, save_decision, and the hand-over to a worker thread.
AgentStart(a) ==
    /\ a \in DOMAIN tasks
    /\ tasks[a].pc = "new"
    /\ LoopFree(tasks)
    /\ IF tasks[a].node = None \/ ~InWorkflow(workflow, tasks[a].node)
       THEN /\ tasks' = [tasks EXCEPT ![a].pc = "done"]
            /\ UNCHANGED << decisions, clock >>
       ELSE LET agent == Agent(workflow, tasks[a].node)
                rec   == RecommendTool(tools, agent)
            IN  /\ decisions' =
                       IF storeUp
                       THEN SaveDecision(decisions, a, agent.name, rec,
                                         "medium", "pending", clock + 1)
                       ELSE decisions
                /\ clock' = IF storeUp THEN clock + 1 ELSE clock
                /\ tasks' = [tasks EXCEPT ![a] =
                       [@ EXCEPT !.pc = AfterStoreCall(storeUp, "dispatch"),
                                 !.rec = rec,
                                 !.stage = IF PipelineTool(agent.type) # NoValue
                                           THEN "tool" ELSE "rec"]]
    /\ UNCHANGED << storeUp, graph, traces, policy, tools, index, workflow,
                    pollQueue, pollAuto, callVars, jobVars, external >>

\* The ingest / validation / report branches: the tool runs, then
\* connector.save_tool_execution, which Neo4jConnector does not define, raises
\* inside the try block; exec_result is the failure of the except clause.
PipelineDispatch(a) ==
    /\ a \in DOMAIN tasks
    /\ tasks[a].pc = "dispatch"
    /\ tasks[a].stage = "tool"
    /\ tasks' = [tasks EXCEPT ![a] =
           [@ EXCEPT !.invoked = Append(@, Invocation(
                         PipelineTool(Agent(workflow, tasks[a].node).type),
                         "raise", "pipeline")),
                     !.result = Failed, !.pc = "ret", !.stage = NoValue]]
    /\ UNCHANGED << storeVars, tools, index, workflow, pollQueue, pollAuto, callVars, jobVars,
                    external >>

\* execute_with_fallback, step 1: the recommended tool.
InvokeRecommended(a) ==
    /\ a \in DOMAIN tasks
    /\ tasks[a].pc = "dispatch"
    /\ tasks[a].stage = "rec"
    /\ \E out \in Outcomes(tools, tasks[a].rec) :
           LET t   == tasks[a]
               log == Append(t.invoked, Invocation(t.rec, out, "recommended"))
           IN  IF out = "ok"
               THEN /\ decisions' = Resolved(decisions, a, PolicyCall(t.rec))
                    /\ tasks' = [tasks EXCEPT ![a] =
                           [t EXCEPT !.invoked = log,
                                     !.resolved = Append(@, PolicyCall(t.rec)),
                                     !.result = Result(t.rec, TRUE),
                                     !.pc = "ret", !.stage = NoValue]]
               ELSE IF out = "fail"
               THEN /\ tasks' = [tasks EXCEPT ![a] =
                           [t EXCEPT !.invoked = log,
                                     !.stage = IF FallbackOrder(tools, t.rec) # << >>
                                               THEN "fb" ELSE "vec",
                                     !.idx = 1]]
                    /\ UNCHANGED decisions
               ELSE /\ tasks' = [tasks EXCEPT ![a] =
                           [t EXCEPT !.invoked = log, !.result = Failed,
                                     !.pc = "ret", !.stage = NoValue]]
                    /\ UNCHANGED decisions
    /\ UNCHANGED << storeUp, graph, traces, clock, policy, tools, index,
                    workflow, pollQueue, pollAuto, callVars, jobVars, external >>

\* execute_with_fallback, step 2: the next tool of the fallback loop.
InvokeFallback(a) ==
    /\ a \in DOMAIN tasks
    /\ tasks[a].pc = "dispatch"
    /\ tasks[a].stage = "fb"
    /\ LET t        == tasks[a]
           order    == FallbackOrder(tools, t.rec)
           fallback == order[t.idx]
       IN  \E out \in Outcomes(tools, fallback) :
             LET log == Append(t.invoked, Invocation(fallback, out, "fallback"))
             IN  IF out = "ok"
                 THEN /\ decisions' = Resolved(decisions, a, FallbackCall(fallback))
                      /\ tasks' = [tasks EXCEPT ![a] =
                             [t EXCEPT !.invoked = log,
                                       !.resolved = Append(@, FallbackCall(fallback)),
                                       !.result = Result(fallback, TRUE),
                                       !.pc = "ret", !.stage = NoValue]]
                 ELSE IF out = "fail"
                 THEN /\ tasks' = [tasks EXCEPT ![a] =
                             [t EXCEPT !.invoked = log,
                                       !.stage = IF t.idx < Len(order)
                                                 THEN "fb" ELSE "vec",
                                       !.idx = t.idx + 1]]
                      /\ UNCHANGED decisions
                 ELSE /\ tasks' = [tasks EXCEPT ![a] =
                             [t EXCEPT !.invoked = log, !.result = Failed,
                                       !.pc = "ret", !.stage = NoValue]]
                      /\ UNCHANGED decisions
    /\ UNCHANGED << storeUp, graph, traces, clock, policy, tools, index,
                    workflow, pollQueue, pollAuto, callVars, jobVars, external >>

\* An index built over the names of another registry than the one the
\* orchestrator dispatches to.
IndexedNamesOfOtherRegistry(reg) == << Selenium_RPA_Tool >>

\* self.tool_names: the names the index was built over in __init__, the
\* registered tools at construction.
IndexedNames(reg) == ListTools(reg)

\* execute_with_fallback, steps 3 and 4: the nearest tool of the index, then
\* the final resolve_decision and the return of `result`.
\* The vector tier recording the edge it learned in the dict the run is
\* traversing as well: a new edge of the node, or a heavier one.
SnapshotWithLearnedEdge(wf, agent_id, best_match, prob) ==
    [i \in DOMAIN wf |->
        IF wf[i].id # agent_id THEN wf[i]
        ELSE [wf[i] EXCEPT !.next = Append(@, Edge(best_match, prob))]]

\* The dict of the run after the vector tier succeeded: execute_with_fallback
\* is handed the node, not the workflow, and add_fallback_edge writes to the
\* store only.
SnapshotAfterLearning(wf, agent_id, best_match, prob) == wf

VectorFallback(a) ==
    /\ a \in DOMAIN tasks
    /\ tasks[a].pc = "dispatch"
    /\ tasks[a].stage = "vec"
    /\ LET t     == tasks[a]
           agent == Agent(workflow, t.node)
           names == IndexedNames(tools)
           done(log) == [t EXCEPT !.invoked = log,
                                  !.resolved = Append(@, ExhaustedCall(t.rec)),
                                  !.result = ExhaustedResult(t.rec, log),
                                  !.pc = "ret", !.stage = NoValue]
       IN  IF index /\ Len(names) > 0
           THEN LET best_match == names[Nearest(names, agent.name)]
                    distance   == Distance(agent.name, best_match)
                IN  \E out \in Outcomes(tools, best_match) :
                      LET log == Append(t.invoked, Invocation(best_match, out, "vector"))
                      IN  IF out = "ok"
                          THEN /\ decisions' =
                                      Resolved(decisions, a, VectorCall(best_match))
                               /\ graph' =
                                      IF storeUp
                                      THEN AddFallbackEdge(graph, agent.id, best_match,
                                                           distance * 100)
                                      ELSE graph
                               /\ workflow' =
                                      SnapshotAfterLearning(workflow, agent.id,
                                                            best_match, distance * 100)
                               /\ tasks' = [tasks EXCEPT ![a] =
                                      [t EXCEPT !.invoked = log,
                                                !.resolved =
                                                    Append(@, VectorCall(best_match)),
                                                !.result = Result(best_match, TRUE),
                                                !.pc = "ret", !.stage = NoValue]]
                          ELSE IF out = "fail"
                          THEN /\ decisions' =
                                      Resolved(decisions, a, ExhaustedCall(t.rec))
                               /\ tasks' = [tasks EXCEPT ![a] = done(log)]
                               /\ UNCHANGED << graph, workflow >>
                          ELSE /\ tasks' = [tasks EXCEPT ![a] =
                                      [t EXCEPT !.invoked = log, !.result = Failed,
                                                !.pc = "ret", !.stage = NoValue]]
                               /\ UNCHANGED << decisions, graph, workflow >>
           ELSE /\ decisions' = Resolved(decisions, a, ExhaustedCall(t.rec))
                /\ tasks' = [tasks EXCEPT ![a] = done(t.invoked)]
                /\ UNCHANGED << graph, workflow >>
    /\ UNCHANGED << storeUp, traces, clock, policy, tools, index,
                    pollQueue, pollAuto, callVars, jobVars, external >>

\* _run_agent_recursive after the dispatch: save_execution_trace.
WriteTrace(a) ==
    /\ a \in DOMAIN tasks
    /\ Dispatched(tasks[a])
    /\ LoopFree(tasks)
    /\ traces' = IF storeUp
                 THEN traces \cup {Trace(a, tasks[a].node,
                                         TraceStatus(tasks[a].result))}
                 ELSE traces
    /\ tasks' = [tasks EXCEPT ![a].pc = AfterStoreCall(storeUp, "traced")]
    /\ UNCHANGED << storeUp, graph, decisions, clock, policy, tools, index,
                    workflow, pollQueue, pollAuto, callVars, jobVars, external >>

\* _run_agent_recursive, the loop over agent["next"]: one sample per valid
\* edge, one child coroutine per firing edge, then asyncio.gather.
EvaluateEdges(a) ==
    /\ a \in DOMAIN tasks
    /\ tasks[a].pc = "traced"
    /\ LoopFree(tasks)
    /\ LET t          == tasks[a]
           next_edges == Agent(workflow, t.node).next
           valid      == {i \in DOMAIN next_edges : ValidTarget(workflow, next_edges[i])}
       IN  \E s \in [valid -> Samples] :
             LET firing   == SelectSeq([i \in DOMAIN next_edges |-> i],
                                 LAMBDA i : /\ i \in valid
                                            /\ EdgeFires(s[i], next_edges[i].probability))
                 children == [k \in DOMAIN firing |->
                                 NewTask(next_edges[firing[k]].target, a)]
             IN  /\ Len(tasks) + Len(children) <= MaxAttempts
                 /\ tasks' = [tasks EXCEPT ![a] =
                                 [t EXCEPT !.pc = IF children = << >>
                                                  THEN "done" ELSE "join",
                                           !.samples = s]] \o children
    /\ UNCHANGED << storeVars, tools, index, workflow, pollQueue, pollAuto, callVars, jobVars,
                    external >>

\* The await of asyncio.gather returns.
Join(a) ==
    /\ a \in DOMAIN tasks
    /\ tasks[a].pc = "join"
    /\ LoopFree(tasks)
    /\ ChildrenDone(tasks, a)
    /\ tasks' = [tasks EXCEPT ![a].pc = "done"]
    /\ UNCHANGED << storeVars, tools, index, workflow, pollQueue, pollAuto, callVars, jobVars,
                    external >>

\* ------------------------------------------------------- other processes
\* limit of get_decision_queue
QueueLimit == 50

\* decay_rate of decay_edges, reinforce and decay of update_edge_feedback, in
\* hundredths as the probabilities are.
DecayRate == 5

Reinforce == 10

Decay == 10

\* The limit and severity arguments callers pass; NoValue is severity=None.
Limits == {1, QueueLimit}

SeverityArgs == {NoValue, "low", "high"}

RECURSIVE OldestFirst(_, _)
\* ORDER BY d.created_at ASC over the ids in `ids`.
OldestFirst(decs, ids) ==
    IF ids = {} THEN << >>
    ELSE LET d == CHOOSE x \in ids :
                      \A y \in ids : \/ decs[x].created_at < decs[y].created_at
                                     \/ /\ decs[x].created_at = decs[y].created_at
                                        /\ x <= y
         IN  << d >> \o OldestFirst(decs, ids \ {d})

\* One row of the query: the properties of the Decision it RETURNs.
Row(decs, id) ==
    [id |-> id, severity |-> decs[id].severity,
     recommendation |-> decs[id].recommendation,
     created_at |-> decs[id].created_at]

\* The query with LIMIT taken over the pending decisions of every severity,
\* and the severity test made on what is left.
PendingRowsLimitFirst(decs, severity, limit) ==
    LET ids  == {d \in DOMAIN decs : decs[d].status = "pending"}
        rows == OldestFirst(decs, ids)
        n    == IF Len(rows) < limit THEN Len(rows) ELSE limit
        kept == SelectSeq(SubSeq(rows, 1, n), LAMBDA d :
                    severity # NoValue => decs[d].severity = severity)
    IN  [i \in DOMAIN kept |-> Row(decs, kept[i])]

\* The rows the query of get_decision_queue returns: MATCH on status pending,
\* WHERE on the severity when one is given, ORDER BY created_at, LIMIT.
PendingRows(decs, severity, limit) ==
    LET ids  == {d \in DOMAIN decs :
                    /\ decs[d].status = "pending"
                    /\ severity # NoValue => decs[d].severity = severity}
        rows == OldestFirst(decs, ids)
        n    == IF Len(rows) < limit THEN Len(rows) ELSE limit
    IN  [i \in 1..n |-> Row(decs, rows[i])]

\* The query of get_decision_queue without its WHERE d.severity clause.
QueryRowsUnfiltered(up, decs, severity, limit) ==
    IF up THEN PendingRows(decs, NoValue, limit) ELSE << >>

\* get_decision_queue running its query whether or not it has a driver.
QueryRowsWithoutDriverTest(up, decs, severity, limit) ==
    PendingRows(decs, severity, limit)

\* What get_decision_queue has to iterate over: nothing without a driver
\* (return []), the rows of the query otherwise.
QueryRows(up, decs, severity, limit) ==
    IF up THEN PendingRows(decs, severity, limit) ELSE << >>

\* The loop of get_decision_queue appending every row, auto-approved or not.
QueueAfterWithoutContinue(q, row, approved) == Append(q, row)

\* `queue` after one turn of the loop: `continue` skips the append for a
\* decision the policy auto-approves.
QueueAfter(q, row, approved) == IF approved THEN q ELSE Append(q, row)

\* decay_edges without its WHERE n.learned = true.
DecayEdgesAll(up, g, rate) ==
    IF ~up THEN g
    ELSE [g EXCEPT !.edges =
             [e \in DOMAIN @ |->
                 [@[e] EXCEPT !.probability = (@ * (100 - rate)) \div 100]]]

\* Neo4jConnector.decay_edges: every learned NEXT relationship loses
\* decay_rate of its probability; skipped without a driver. Probabilities are
\* whole hundredths, so the product is rounded down.
DecayEdges(up, g, rate) ==
    IF ~up THEN g
    ELSE [g EXCEPT !.edges =
             [e \in DOMAIN @ |->
                 IF @[e].learned
                 THEN [@[e] EXCEPT !.probability = (@ * (100 - rate)) \div 100]
                 ELSE @[e]]]

\* update_edge_feedback changing every NEXT relationship that leaves
\* from_agent, whatever its target.
UpdateEdgeFeedbackAnyTarget(up, g, from_agent, to_agent, success, reinforce, decay) ==
    IF ~up THEN g
    ELSE [g EXCEPT !.edges =
             [e \in DOMAIN @ |->
                 IF e[1] = from_agent
                 THEN [@[e] EXCEPT !.probability =
                          IF success THEN @ + reinforce
                          ELSE (@ * (100 - decay)) \div 100]
                 ELSE @[e]]]

\* Neo4jConnector.update_edge_feedback: the NEXT relationship between the two
\* matched Agent nodes is reinforced, or decayed; skipped without a driver.
UpdateEdgeFeedback(up, g, from_agent, to_agent, success, reinforce, decay) ==
    IF ~up \/ << from_agent, to_agent >> \notin DOMAIN g.edges THEN g
    ELSE [g EXCEPT !.edges[<< from_agent, to_agent >>].probability =
             IF success THEN @ + reinforce ELSE (@ * (100 - decay)) \div 100]

\* get_decision_queue: the query, or return [] without a driver.
PollRead ==
    /\ tasks # << >>
    /\ external < MaxExternal
    /\ pollQueue = << >>
    /\ \E auto \in BOOLEAN, limit \in Limits, severity \in SeverityArgs :
           LET rows == QueryRows(storeUp, decisions, severity, limit)
           IN  /\ pollAuto' = auto
               /\ pollArgs' = [limit |-> limit, severity |-> severity]
               /\ results' = rows
               /\ pollQueue' = rows
               /\ queue' = << >>
               /\ pollSeen' = decisions
               /\ pollHit' = "unchecked"
    /\ external' = external + 1
    /\ UNCHANGED << storeVars, tools, index, workflow, tasks, jobVars >>

\* get_decision_queue, the condition of the `if` for the row at hand:
\* auto_apply_policy and severity in self.policy.get("severity_levels", {}).
PollCheck ==
    /\ pollQueue # << >>
    /\ pollHit = "unchecked"
    /\ pollHit' = IF pollAuto /\ Head(pollQueue).severity \in DOMAIN policy
                  THEN "in" ELSE "out"
    /\ UNCHANGED << storeVars, tools, index, workflow, tasks, pollQueue,
                    pollAuto, pollArgs, results, queue, pollSeen, jobVars,
                    external >>

\* get_decision_queue, the rest of the turn: rules is looked up in
\* self.policy as it is now; a severity that is no longer there is a KeyError,
\* which the outer except turns into `return []`. Otherwise the row is
\* auto-approved and skipped, or appended.
PollStep ==
    /\ pollQueue # << >>
    /\ pollHit # "unchecked"
    /\ LET row      == Head(pollQueue)
           raises   == pollHit = "in" /\ row.severity \notin DOMAIN policy
           approved == pollHit = "in" /\ AutoApprove(policy, row.severity)
       IN  /\ decisions' =
                  IF approved
                  THEN Resolved(decisions, row.id,
                                Call(row.recommendation, "auto_approved", "policy"))
                  ELSE decisions
           /\ queue' = IF raises THEN << >> ELSE QueueAfter(queue, row, approved)
           /\ pollQueue' = IF raises THEN << >> ELSE Tail(pollQueue)
    /\ pollHit' = "unchecked"
    /\ UNCHANGED << storeUp, graph, traces, clock, policy, tools, index,
                    workflow, tasks, pollAuto, pollArgs, results, pollSeen,
                    jobVars, external >>

\* decay_edges, called by a maintenance job.
DecayEdgesCall ==
    /\ tasks # << >>
    /\ external < MaxExternal
    /\ graph' = DecayEdges(storeUp, graph, DecayRate)
    /\ external' = external + 1
    /\ UNCHANGED << storeUp, decisions, traces, clock, policy, tools, index,
                    workflow, tasks, pollQueue, pollAuto, callVars, jobVars >>

\* update_edge_feedback, called with the outcome of a step.
UpdateEdgeFeedbackCall ==
    /\ tasks # << >>
    /\ external < MaxExternal
    /\ \E e \in DOMAIN graph.edges, success \in BOOLEAN :
           graph' = UpdateEdgeFeedback(storeUp, graph, e[1], e[2], success,
                                       Reinforce, Decay)
    /\ external' = external + 1
    /\ UNCHANGED << storeUp, decisions, traces, clock, policy, tools, index,
                    workflow, tasks, pollQueue, pollAuto, callVars, jobVars >>

\* The choices an operator posts to /decisions/<id>/approve.
Choices == {RPA_Tool}

\* web_dashboard.approve_decision
DashboardApprove ==
    /\ storeUp
    /\ external < MaxExternal
    /\ \E d \in DOMAIN decisions, choice \in Choices :
           decisions' = ApproveDecision(decisions, d, choice)
    /\ external' = external + 1
    /\ UNCHANGED << storeUp, graph, traces, clock, policy, tools, index,
                    workflow, tasks, pollQueue, pollAuto, callVars, jobVars >>

Attempts == 1..MaxAttempts

\* A run of the orchestrator on its own.
Next ==
    \/ RunWorkflow
    \/ RunAgentDirect
    \/ \E a \in Attempts : AgentStart(a)
    \/ \E a \in Attempts : PipelineDispatch(a)
    \/ \E a \in Attempts : InvokeRecommended(a)
    \/ \E a \in Attempts : InvokeFallback(a)
    \/ \E a \in Attempts : VectorFallback(a)
    \/ \E a \in Attempts : WriteTrace(a)
    \/ \E a \in Attempts : EvaluateEdges(a)
    \/ \E a \in Attempts : Join(a)

Spec == Init /\ [][Next]_vars

\* A run against a reachable store, with the decision queue being read and
\* the dashboard approving at any moment.
InitLedger ==
    /\ storeUp = TRUE
    /\ graph = SampleGraph
    /\ decisions = << >>
    /\ traces = {}
    /\ clock = 0
    /\ policy \in PolicyFiles
    /\ tools = PairTools
    /\ index = TRUE
    /\ workflow = << >>
    /\ tasks = << >>
    /\ pollQueue = << >>
    /\ pollAuto = FALSE
    /\ pollArgs = NoCall
    /\ results = << >>
    /\ queue = << >>
    /\ pollSeen = << >>
    /\ pollHit = "unchecked"
    /\ issued = << >>
    /\ metrics = NoMetrics
    /\ workers = << >>
    /\ sup = NoSupervisor
    /\ external = 0

NextLedger ==
    \/ RunWorkflow
    \/ \E a \in Attempts : AgentStart(a)
    \/ \E a \in Attempts : InvokeRecommended(a)
    \/ \E a \in Attempts : InvokeFallback(a)
    \/ \E a \in Attempts : VectorFallback(a)
    \/ \E a \in Attempts : WriteTrace(a)
    \/ \E a \in Attempts : EvaluateEdges(a)
    \/ \E a \in Attempts : Join(a)
    \/ PollRead
    \/ PollCheck
    \/ PollStep
    \/ DashboardApprove

SpecLedger == InitLedger /\ [][NextLedger]_vars


\* ------------------------------------------------------------- properties
TerminalStatuses == {"approved", "auto_approved", "rejected"}

DecisionStatuses == {"pending"} \cup TerminalStatuses

\* The task of attempt a has left execute_with_fallback or the pipeline branch.
Returned(t) == t.pc \in {"ret", "traced", "join", "done"}

\* C1: a Decision's status is always one of pending, approved, auto_approved,
\* rejected; the only status changes are pending -> approved, auto_approved or
\* rejected; once a Decision is terminal its status, choice and actor never
\* change, whatever save_decision, resolve_decision, get_decision_queue,
\* execute_with_fallback or the dashboard's approve do.
C1_DecisionLifecycle ==
    [][\A d \in DOMAIN decisions' :
          /\ decisions'[d].status \in DecisionStatuses
          /\ d \in DOMAIN decisions =>
               /\ decisions'[d].status # decisions[d].status =>
                      /\ decisions[d].status = "pending"
                      /\ decisions'[d].status \in TerminalStatuses
               /\ decisions[d].status \in TerminalStatuses =>
                      /\ decisions'[d].status = decisions[d].status
                      /\ decisions'[d].choice = decisions[d].choice
                      /\ decisions'[d].resolved_by = decisions[d].resolved_by]_vars

\* C2: when the auto-approval of get_decision_queue and the outcome of
\* execute_with_fallback both resolve one Decision, a resolve takes effect only
\* on a Decision that is still pending and is otherwise a no-op: the resolve
\* applied first fixes status, choice and actor for good.
C2_FirstResolveWins ==
    [][external' = external =>
          \A d \in DOMAIN decisions :
              (decisions[d].status # "pending" /\ decisions[d].resolved_by # NoValue)
                  => decisions'[d] = decisions[d]]_vars

\* C3: every Decision created by a node attempt, whatever the node's type, is
\* resolved exactly once, to a terminal status, by the time the attempt's
\* execution step has finished; so none is pending at the end of the run and
\* none is resolved twice by the run.
C3_ResolvedExactlyOnce ==
    \A a \in DOMAIN tasks :
        (Returned(tasks[a]) /\ a \in DOMAIN decisions) =>
            /\ Len(tasks[a].resolved) = 1
            /\ decisions[a].status \in TerminalStatuses


\* The tools of a registry other than the recommended one, in registry order.
RemainingTools(reg, rec) == SelectSeq(ListTools(reg), LAMBDA n : n # rec)

\* The calls one tier of the procedure made in an attempt, in order.
TierCalls(t, tier) == SelectSeq(t.invoked, LAMBDA c : c.tier = tier)

\* The attempt went through execute_with_fallback.
ViaFallbackProcedure(t) ==
    t.invoked # << >> /\ t.invoked[1].tier = "recommended"

\* C4: when the invocation of the recommended tool succeeds, the Decision is
\* resolved approved by actor policy with the recommended tool as choice, that
\* tool's result is what the procedure returns, and no other tool is invoked.
C4_RecommendedSucceeds ==
    \A a \in DOMAIN tasks :
        LET t   == tasks[a]
            rec == RecommendTool(tools, Agent(workflow, t.node))
        IN  (ViaFallbackProcedure(t) /\ t.invoked[1].out = "ok") =>
                /\ t.invoked = << Invocation(rec, "ok", "recommended") >>
                /\ Returned(t)
                /\ t.result = Result(rec, TRUE)
                /\ t.resolved = << Call(rec, "approved", "policy") >>
                /\ a \in DOMAIN decisions =>
                       /\ decisions[a].status = "approved"
                       /\ decisions[a].choice = rec
                       /\ decisions[a].resolved_by = "policy"

C4_Witness ==
    \E a \in DOMAIN tasks :
        /\ ViaFallbackProcedure(tasks[a])
        /\ tasks[a].invoked[1].out = "ok"
        /\ Len(ListTools(tools)) > 1
        /\ a \in DOMAIN decisions
        /\ decisions[a].resolved_by = "policy"
        /\ tasks[a].pc = "done"

\* C5: when the recommended tool fails, the remaining registered tools are
\* invoked one at a time in registry order, the recommended one skipped; the
\* first that succeeds resolves the Decision approved by actor fallback with
\* that tool as choice, its result is returned and no later tool is invoked.
C5_FallbackInRegistryOrder ==
    \A a \in DOMAIN tasks :
        LET t    == tasks[a]
            rec  == RecommendTool(tools, Agent(workflow, t.node))
            rest == RemainingTools(tools, rec)
            fb   == TierCalls(t, "fallback")
        IN  ViaFallbackProcedure(t) =>
              /\ fb # << >> => t.invoked[1].out = "fail"
              /\ Len(fb) <= Len(rest)
              /\ \A i \in DOMAIN fb :
                     /\ t.invoked[i + 1] = fb[i]
                     /\ fb[i].tool = rest[i]
                     /\ i < Len(fb) => fb[i].out = "fail"
              /\ (fb # << >> /\ fb[Len(fb)].out = "ok") =>
                     LET chosen == fb[Len(fb)].tool
                     IN  /\ Len(t.invoked) = Len(fb) + 1
                         /\ Returned(t)
                         /\ t.result = Result(chosen, TRUE)
                         /\ t.resolved = << Call(chosen, "approved", "fallback") >>
                         /\ a \in DOMAIN decisions =>
                                /\ decisions[a].status = "approved"
                                /\ decisions[a].choice = chosen
                                /\ decisions[a].resolved_by = "fallback"
              /\ (t.invoked[1].out = "fail" /\ (Returned(t) \/ t.stage = "vec")
                  /\ \A c \in DOMAIN t.invoked : t.invoked[c].out # "raise"
                  /\ ~(fb # << >> /\ fb[Len(fb)].out = "ok")) =>
                     Len(fb) = Len(rest)

\* X fails, Y succeeds, and the tool registered after Y is never invoked.
C5_Witness ==
    \E a \in DOMAIN tasks :
        /\ Len(ListTools(tools)) = 3
        /\ tasks[a].invoked = << Invocation(ListTools(tools)[1], "fail", "recommended"),
                                 Invocation(ListTools(tools)[2], "ok", "fallback") >>
        /\ tasks[a].result = Result(ListTools(tools)[2], TRUE)
        /\ a \in DOMAIN decisions
        /\ decisions[a].resolved_by = "fallback"
        /\ tasks[a].pc = "done"


\* The attempt ended in the vector tier with a successful invocation.
VectorSucceeded(t) ==
    /\ ViaFallbackProcedure(t)
    /\ t.invoked[Len(t.invoked)] =
           Invocation(t.invoked[Len(t.invoked)].tool, "ok", "vector")

\* C6: when the recommended tool and every other registered tool fail and the
\* nearest tool Z of the similarity index succeeds, the Decision is resolved
\* approved by actor vector with choice Z, and the Store then holds a learned
\* edge from the executing node to Z, created or strengthened.
C6_VectorLearnsEdge ==
    \A a \in DOMAIN tasks :
        LET t == tasks[a]
            Z == t.invoked[Len(t.invoked)].tool
        IN  (VectorSucceeded(t) /\ storeUp) =>
                /\ a \in DOMAIN decisions
                /\ decisions[a].status = "approved"
                /\ decisions[a].choice = Z
                /\ decisions[a].resolved_by = "vector"
                /\ << t.node, Z >> \in DOMAIN graph.edges
                /\ graph.edges[<< t.node, Z >>].learned

\* Every tier of the attempt failed: no invocation succeeded, none raised, and
\* the procedure has returned.
Exhausted(t) ==
    /\ ViaFallbackProcedure(t)
    /\ Returned(t)
    /\ \A i \in DOMAIN t.invoked : t.invoked[i].out = "fail"

\* C7: when the recommended tool, every other registered tool and the tool the
\* index selects all fail, or there is no index, the Decision is resolved with
\* status rejected by actor system and the procedure returns the result of the
\* last failed invocation.
C7_ExhaustedRejects ==
    \A a \in DOMAIN tasks :
        LET t == tasks[a]
        IN  Exhausted(t) =>
                /\ t.result = Result(t.invoked[Len(t.invoked)].tool, FALSE)
                /\ (storeUp /\ a \in DOMAIN decisions) =>
                       /\ decisions[a].status = "rejected"
                       /\ decisions[a].resolved_by = "system"


\* save_execution_trace has run for attempt a.
HasTrace(a) == \E tr \in traces : tr.trace_id = a

\* The attempts started from attempt a, in the order they were started.
Children(ts, a) ==
    SelectSeq([c \in DOMAIN ts |-> c], LAMBDA c : ts[c].parent = a)

\* The successors of attempt a have been decided: its edges were evaluated.
EdgesEvaluated(ts, a) ==
    ts[a].samples # << >> \/ Children(ts, a) # << >> \/ ts[a].pc \in {"join", "done"}

\* What C8 requires of one state.
OrderedAttempt(ts, decs, trs, a) ==
    LET t      == ts[a]
        traced == \E tr \in trs : tr.trace_id = a
    IN  /\ t.pc = "new" =>
               /\ t.invoked = << >>
               /\ a \notin DOMAIN decs
        /\ (t.invoked # << >> /\ storeUp) => a \in DOMAIN decs
        /\ traced =>
               /\ t.result # NoResult
               /\ t.pc \notin {"new", "dispatch"}
        /\ (EdgesEvaluated(ts, a) /\ InWorkflow(workflow, t.node)) =>
               /\ storeUp => traced
               /\ t.result # NoResult

\* C8: in every node attempt the Decision is created, pending, before any tool
\* of the attempt is invoked; every tool invocation and the resolution of the
\* Decision come before the Execution Trace is written; and the trace is
\* written before an outgoing edge is evaluated or a successor started.
C8_AttemptOrdering ==
    [][\A a \in DOMAIN tasks' :
          /\ OrderedAttempt(tasks', decisions', traces', a)
          /\ (a \in DOMAIN decisions' /\ a \notin DOMAIN decisions) =>
                 /\ decisions'[a].status = "pending"
                 /\ tasks'[a].invoked = << >>
          /\ (a \in DOMAIN tasks /\ HasTrace(a)) =>
                 /\ tasks'[a].invoked = tasks[a].invoked
                 /\ tasks'[a].resolved = tasks[a].resolved
                 /\ tasks'[a].result = tasks[a].result
                 /\ a \in DOMAIN decisions => decisions'[a] = decisions[a]
          /\ (a \in DOMAIN tasks /\ ~EdgesEvaluated(tasks, a)
              /\ EdgesEvaluated(tasks', a) /\ InWorkflow(workflow, tasks[a].node)) =>
                 /\ storeUp => HasTrace(a)
                 /\ traces' = traces]_vars

\* An attempt that invoked several tools, wrote its trace and started a
\* successor that has itself invoked a tool.
C8_Witness ==
    \E a \in DOMAIN tasks, c \in DOMAIN tasks :
        /\ storeUp
        /\ Len(tasks[a].invoked) > 1
        /\ tasks[a].resolved # << >>
        /\ HasTrace(a)
        /\ tasks[c].parent = a
        /\ tasks[c].invoked # << >>
        /\ a \in DOMAIN decisions /\ c \in DOMAIN decisions

\* C9: a node's task completes only after every child task it started for a
\* firing edge has completed, in every interleaving and whether or not a child
\* branch failed; so once the root task of the run has completed no task of
\* the run is still running.
C9_ForkJoin ==
    /\ \A a \in DOMAIN tasks :
           tasks[a].pc = "done" =>
               \A c \in DOMAIN tasks : tasks[c].parent = a => tasks[c].pc = "done"
    /\ (tasks # << >> /\ tasks[1].pc = "done") =>
           \A a \in DOMAIN tasks : tasks[a].pc = "done"

\* The run has returned after a fork into two children, one of which failed
\* and one of which forked again.
C9_Witness ==
    /\ tasks # << >>
    /\ tasks[1].pc = "done"
    /\ Len(Children(tasks, 1)) = 2
    /\ \E c \in DOMAIN tasks : tasks[c].parent = 1 /\ ~tasks[c].result.success
    /\ \E c \in DOMAIN tasks, g \in DOMAIN tasks :
           tasks[c].parent = 1 /\ tasks[g].parent = c

\* C10: each outgoing edge with a valid target gets one sample and starts its
\* target iff sample < probability, whatever the other edges of the node do;
\* an edge of probability 1.0 always fires, one of probability 0 never.
C10_IndependentGates ==
    \A a \in DOMAIN tasks :
        LET t     == tasks[a]
            edges == Agent(workflow, t.node).next
            valid == {i \in DOMAIN edges : ValidTarget(workflow, edges[i])}
            fired == SelectSeq([i \in DOMAIN edges |-> i],
                         LAMBDA i : i \in valid /\ t.samples[i] < edges[i].probability)
            kids  == Children(tasks, a)
        IN  (t.pc \in {"join", "done"} /\ InWorkflow(workflow, t.node)) =>
                /\ DOMAIN t.samples = valid
                /\ Len(kids) = Len(fired)
                /\ \A k \in DOMAIN kids :
                       tasks[kids[k]].node = edges[fired[k]].target
                /\ \A i \in valid :
                       /\ edges[i].probability >= 100 =>
                              \E k \in DOMAIN fired : fired[k] = i
                       /\ edges[i].probability <= 0 =>
                              \A k \in DOMAIN fired : fired[k] # i

\* A node with two valid edges of probability strictly between 0 and 1 that
\* started both targets in one traversal.
C10_Witness ==
    \E a \in DOMAIN tasks :
        LET edges == Agent(workflow, tasks[a].node).next
        IN  /\ InWorkflow(workflow, tasks[a].node)
            /\ tasks[a].pc \in {"join", "done"}
            /\ Len(edges) = 2
            /\ \A i \in DOMAIN edges :
                   /\ ValidTarget(workflow, edges[i])
                   /\ edges[i].probability > 0 /\ edges[i].probability < 100
            /\ Len(Children(tasks, a)) = 2


\* C11: an outgoing edge whose target is null or is no node of the workflow is
\* skipped: it gets no sample and starts nothing, the sibling edges of the node
\* are still evaluated and their targets started, and every node reached has
\* its Decision and, once its step is over, its Execution Trace.
C11_DanglingEdgeSkipped ==
    \A a \in DOMAIN tasks :
        LET t     == tasks[a]
            edges == IF InWorkflow(workflow, t.node)
                     THEN Agent(workflow, t.node).next ELSE << >>
            kids  == Children(tasks, a)
        IN  /\ t.node # None /\ InWorkflow(workflow, t.node)
            /\ t.pc \in {"join", "done"} =>
                   /\ \A i \in DOMAIN edges :
                          (edges[i].target = None \/ ~InWorkflow(workflow, edges[i].target))
                              => i \notin DOMAIN t.samples
                   /\ \A i \in DOMAIN edges :
                          (edges[i].target # None /\ InWorkflow(workflow, edges[i].target))
                              => /\ i \in DOMAIN t.samples
                                 /\ t.samples[i] < edges[i].probability =>
                                        \E k \in DOMAIN kids :
                                            tasks[kids[k]].node = edges[i].target
                   /\ storeUp => (a \in DOMAIN decisions /\ HasTrace(a))

\* A node with a null-target edge ahead of a valid one: the valid target was
\* started and has finished with its Decision and Trace in the store.
C11_Witness ==
    \E a \in DOMAIN tasks, c \in DOMAIN tasks :
        LET edges == Agent(workflow, tasks[a].node).next
        IN  /\ storeUp
            /\ InWorkflow(workflow, tasks[a].node)
            /\ Len(edges) > 1
            /\ edges[1].target = None
            /\ tasks[c].parent = a
            /\ tasks[c].pc = "done"
            /\ c \in DOMAIN decisions
            /\ HasTrace(c)
            /\ tasks[a].pc = "done"


RECURSIVE Ancestors(_, _)
\* The attempts on the execution path that leads to attempt a.
Ancestors(ts, a) ==
    IF ts[a].parent = 0 THEN {}
    ELSE {ts[a].parent} \cup Ancestors(ts, ts[a].parent)

\* C12: a node that is already active on the current execution path is never
\* entered again, so the depth of the recursion never exceeds the number of
\* nodes of the workflow, cycles of probability 1.0 included.
C12_CycleGuard ==
    \A a \in DOMAIN tasks :
        /\ \A b \in Ancestors(tasks, a) : tasks[b].node # tasks[a].node
        /\ Cardinality(Ancestors(tasks, a)) + 1 <= Len(workflow)


\* ExecutionTrace nodes written for attempt a.
TracesOf(a) == {tr \in traces : tr.trace_id = a}

\* Every task of the run has finished.
RunComplete == tasks # << >> /\ \A a \in DOMAIN tasks : tasks[a].pc = "done"

\* C13: with the store reachable every node attempt produces exactly one
\* Decision and exactly one Execution Trace, whatever the node's type and
\* whether the dispatch succeeded, failed or raised; at the end of a run there
\* are as many traces as decisions, one of each per attempt.
C13_OneDecisionOneTrace ==
    /\ storeUp =>
           /\ \A a \in DOMAIN tasks :
                  /\ tasks[a].pc # "new" => a \in DOMAIN decisions
                  /\ tasks[a].pc \in {"traced", "join", "done"} =>
                         /\ Cardinality(TracesOf(a)) = 1
                         /\ \A tr \in TracesOf(a) : tr.agent_id = tasks[a].node
                  /\ tasks[a].pc \in {"new", "dispatch", "ret"} => TracesOf(a) = {}
           /\ DOMAIN decisions \subseteq DOMAIN tasks
           /\ \A tr \in traces : tr.trace_id \in DOMAIN tasks
    /\ (storeUp /\ RunComplete) =>
           /\ Cardinality(traces) = Len(tasks)
           /\ Cardinality(DOMAIN decisions) = Len(tasks)

\* A finished run of four attempts with a dispatch that raised, one that
\* failed and one that succeeded, and a node that was attempted twice.
C13_Witness ==
    /\ storeUp
    /\ RunComplete
    /\ Len(tasks) = 4
    /\ Cardinality(traces) = 4
    /\ \E a \in DOMAIN tasks, b \in DOMAIN tasks :
           a # b /\ tasks[a].node = tasks[b].node
    /\ \E a \in DOMAIN tasks : tasks[a].result.success
    /\ \E a \in DOMAIN tasks : ~tasks[a].result.success


\* ------------------------------------------------------------ store outage
\* The database stops answering while a run is in progress.
StoreOutage ==
    /\ storeUp
    /\ tasks # << >>
    /\ external < MaxExternal
    /\ storeUp' = FALSE
    /\ external' = external + 1
    /\ UNCHANGED << graph, decisions, traces, clock, policy, tools, index,
                    workflow, tasks, pollQueue, pollAuto, callVars, jobVars >>

\* The database answers again.
StoreRecovery ==
    /\ ~storeUp
    /\ external > 0
    /\ storeUp' = TRUE
    /\ UNCHANGED << graph, decisions, traces, clock, policy, tools, index,
                    workflow, tasks, pollQueue, pollAuto, callVars, jobVars, external >>

\* A run during which the store may stop answering and come back.
InitOutage ==
    /\ storeUp = TRUE
    /\ graph = SampleGraph
    /\ decisions = << >>
    /\ traces = {}
    /\ clock = 0
    /\ policy = << >>
    /\ tools \in {PairTools, MixedTools}
    /\ index = TRUE
    /\ workflow = << >>
    /\ tasks = << >>
    /\ pollQueue = << >>
    /\ pollAuto = FALSE
    /\ pollArgs = NoCall
    /\ results = << >>
    /\ queue = << >>
    /\ pollSeen = << >>
    /\ pollHit = "unchecked"
    /\ issued = << >>
    /\ metrics = NoMetrics
    /\ workers = << >>
    /\ sup = NoSupervisor
    /\ external = 0

NextOutage ==
    \/ RunWorkflow
    \/ \E a \in Attempts : AgentStart(a)
    \/ \E a \in Attempts : InvokeRecommended(a)
    \/ \E a \in Attempts : InvokeFallback(a)
    \/ \E a \in Attempts : VectorFallback(a)
    \/ \E a \in Attempts : WriteTrace(a)
    \/ \E a \in Attempts : EvaluateEdges(a)
    \/ \E a \in Attempts : Join(a)
    \/ StoreOutage
    \/ StoreRecovery

SpecOutage == InitOutage /\ [][NextOutage]_vars


\* The tools execute_with_fallback calls for an agent while every call fails:
\* the recommended tool, the other registered tools, the nearest of the index.
ProcedureCalls(reg, idx, agent) ==
    LET rec   == RecommendTool(reg, agent)
        names == ListTools(reg)
    IN  << rec >> \o RemainingTools(reg, rec) \o
        (IF idx /\ Len(names) > 0
         THEN << names[Nearest(names, agent.name)] >> ELSE << >>)

\* C14: a store outage at any persistence call of a run never aborts the run:
\* no attempt ends in an exception of a connector call, and, store answering
\* or not, the tools an attempt invokes are fixed by the outcomes of its
\* earlier invocations and the nodes it starts by its samples.
C14_OutageNeverAborts ==
    \A a \in DOMAIN tasks :
        LET t     == tasks[a]
            agent == Agent(workflow, t.node)
            calls == ProcedureCalls(tools, index, agent)
            edges == agent.next
            fired == {i \in DOMAIN t.samples : t.samples[i] < edges[i].probability}
        IN  /\ t.pc \in {"new", "dispatch", "ret", "traced", "join", "done"}
            /\ ViaFallbackProcedure(t) =>
                   /\ Len(t.invoked) <= Len(calls)
                   /\ \A i \in DOMAIN t.invoked :
                          /\ t.invoked[i].tool = calls[i]
                          /\ i < Len(t.invoked) => t.invoked[i].out = "fail"
                   /\ (Returned(t) /\ t.invoked[Len(t.invoked)].out = "fail") =>
                          Len(t.invoked) = Len(calls)
            /\ t.pc \in {"join", "done"} =>
                   Len(Children(tasks, a)) = Cardinality(fired)

\* A run that finished although the store stopped answering after its first
\* Decision was saved: later writes are missing, yet the second node ran and
\* an attempt went through more than one tool.
C14_Witness ==
    /\ RunComplete
    /\ ~storeUp
    /\ 1 \in DOMAIN decisions
    /\ Len(tasks) = 2
    /\ 2 \notin DOMAIN decisions
    /\ Cardinality(traces) < Len(tasks)
    /\ \E a \in DOMAIN tasks : Len(tasks[a].invoked) > 1


\* The built-in graph of three nodes, written out.
IsBuiltinWorkflow(wf) ==
    /\ Len(wf) = 3
    /\ Keys(wf) = << "agent_validator", "agent_executor", "agent_auditor" >>
    /\ Agent(wf, "agent_validator").next =
           << [target |-> "agent_executor", probability |-> 80],
              [target |-> "agent_auditor", probability |-> 20] >>
    /\ Agent(wf, "agent_executor").next =
           << [target |-> "agent_auditor", probability |-> 100] >>
    /\ Agent(wf, "agent_auditor").next = << >>

StoredDecision(severity, status, created_at) ==
    [agent |-> "Reader", recommendation |-> API_Tool, severity |-> severity,
     status |-> status, created_at |-> created_at,
     choice |-> IF status = "pending" THEN NoValue ELSE API_Tool,
     resolved_by |-> IF status = "pending" THEN NoValue ELSE "admin"]

\* Decisions in the store when the process starts: their ids are not in
\* creation order, and one is resolved already.
StoredDecisions ==
    (101 :> StoredDecision("high", "pending", 3)) @@
    (102 :> StoredDecision("low", "pending", 1)) @@
    (103 :> StoredDecision("high", "pending", 2)) @@
    (104 :> StoredDecision("high", "approved", 0))

\* The sample graph with an Agent node for API_Tool as well, after
\* add_fallback_edge has learned Validator -> RPA_Tool.
LearnedGraph ==
    AddFallbackEdge([SampleGraph EXCEPT !.agents = @ \cup {API_Tool}],
                    "Validator", RPA_Tool, 60)

\* A process whose connector may have failed to create its driver, on a store
\* that holds a graph and decisions: it runs the workflow, reads the decision
\* queue and adjusts edges. Its policy file auto-approves low severity only.
InitConnector ==
    /\ storeUp \in BOOLEAN
    /\ graph = LearnedGraph
    /\ decisions = StoredDecisions
    /\ traces = {}
    /\ clock = 3
    /\ policy = [s \in {"low"} |-> [auto_approve |-> TRUE]]
    /\ tools = PairTools
    /\ index = TRUE
    /\ workflow = << >>
    /\ tasks = << >>
    /\ pollQueue = << >>
    /\ pollAuto = FALSE
    /\ pollArgs = NoCall
    /\ results = << >>
    /\ queue = << >>
    /\ pollSeen = << >>
    /\ pollHit = "unchecked"
    /\ issued = << >>
    /\ metrics = NoMetrics
    /\ workers = << >>
    /\ sup = NoSupervisor
    /\ external = 0

NextConnector ==
    \/ RunWorkflow
    \/ \E a \in Attempts : AgentStart(a)
    \/ \E a \in Attempts : InvokeRecommended(a)
    \/ \E a \in Attempts : InvokeFallback(a)
    \/ \E a \in Attempts : VectorFallback(a)
    \/ \E a \in Attempts : WriteTrace(a)
    \/ \E a \in Attempts : EvaluateEdges(a)
    \/ \E a \in Attempts : Join(a)
    \/ PollRead
    \/ PollCheck
    \/ PollStep
    \/ DecayEdgesCall
    \/ UpdateEdgeFeedbackCall

SpecConnector == InitConnector /\ [][NextConnector]_vars

\* C16: with the driver unavailable, save_execution_trace, save_decision,
\* resolve_decision, add_fallback_edge, decay_edges, update_edge_feedback and
\* get_decision_queue do not raise, leave the Agent graph, the Decision nodes
\* and the ExecutionTrace nodes as they were, and get_decision_queue returns
\* the empty list.
C16_UnavailableIsNoOp ==
    [][~storeUp =>
          /\ graph' = graph
          /\ decisions' = decisions
          /\ traces' = traces
          /\ results' = << >> /\ pollQueue' = << >> /\ queue' = << >>
          /\ \A a \in DOMAIN tasks' : tasks'[a].pc # "aborted"]_vars

\* Without a driver the run is over, the vector tier had an edge to learn, the
\* queue was asked for and the store still holds what it held.
C16_Witness ==
    /\ ~storeUp
    /\ RunComplete
    /\ \E a \in DOMAIN tasks : VectorSucceeded(tasks[a])
    /\ pollArgs # NoCall
    /\ queue = << >>
    /\ decisions = StoredDecisions
    /\ \E d \in DOMAIN decisions : decisions[d].status = "pending"
    /\ graph = LearnedGraph
    /\ traces = {}


\* C17: with the driver unavailable, load_workflow returns the empty mapping
\* for any workflow id.
C17_UnavailableLoadsEmpty ==
    \A g \in {graph, EmptyGraph, SampleGraph, CyclicGraph} :
        ~storeUp => LoadWorkflow(storeUp, g) = << >>


\* The same rows in the opposite order.
Reverse(s) == [i \in 1..Len(s) |-> s[Len(s) + 1 - i]]

\* The stored workflow with its agents returned by the query in another order:
\* the same nodes and edges, inserted into the mapping differently.
Reinserted(g) == [g EXCEPT !.handles = Reverse(@)]

\* C18: run_workflow starts at the designated entry node of the workflow: two
\* workflows with the same nodes and edges, inserted in different orders,
\* start at the same node.
C18_EntryIndependentOfOrder ==
    LET wf    == LoadWorkflow(storeUp, graph)
        other == LoadWorkflow(storeUp, Reinserted(graph))
    IN  /\ {Keys(wf)[i] : i \in DOMAIN wf} = {Keys(other)[i] : i \in DOMAIN other}
        /\ \A k \in {Keys(wf)[i] : i \in DOMAIN wf} :
               Agent(wf, k) = Agent(other, k)
        /\ EntryNode(wf) = EntryNode(other)


\* The rows of `results` the loop of get_decision_queue has been through.
Handled == SubSeq(results, 1, Len(results) - Len(pollQueue))

\* The policy has an auto_approve rule for the severity of the row.
PolicyApproves(row) ==
    /\ row.severity \in DOMAIN policy
    /\ policy[row.severity].auto_approve

\* A turn of the loop of get_decision_queue is being taken.
LoopTurn == pollQueue # << >> /\ pollQueue' = Tail(pollQueue)

\* get_decision_queue returns in this step.
Returns ==
    \/ LoopTurn /\ pollQueue' = << >>
    \/ pollArgs' # pollArgs /\ pollQueue' = << >>

\* C19 as stated: with auto_apply_policy, every Decision in the returned list
\* is pending when the call returns.
C19_ReturnedStillPending ==
    [][(Returns /\ pollAuto') =>
          \A i \in DOMAIN queue' :
              decisions'[queue'[i].id].status = "pending"]_vars

\* C19: with auto_apply_policy, a turn of the loop on a row whose severity has
\* an auto_approve rule sets that Decision to auto_approved by policy with its
\* recommendation as choice and keeps it out of the list; any other turn
\* appends the row and changes no Decision. Every Decision in the list was
\* pending when the query ran, has no auto_approve rule, and is left as it was
\* by the call.
C19_AutoApproveOnRead ==
    /\ [][(LoopTurn /\ pollAuto) =>
             LET row == Head(pollQueue)
             IN  /\ PolicyApproves(row) =>
                        /\ decisions'[row.id].status = "auto_approved"
                        /\ decisions'[row.id].resolved_by = "policy"
                        /\ decisions'[row.id].choice = row.recommendation
                        /\ queue' = queue
                 /\ ~PolicyApproves(row) =>
                        /\ decisions' = decisions
                        /\ queue' = Append(queue, row)
                 /\ \A d \in DOMAIN decisions \ {row.id} :
                        decisions'[d] = decisions[d]]_vars
    /\ [](pollAuto =>
             /\ \A i \in DOMAIN queue :
                    /\ ~PolicyApproves(queue[i])
                    /\ pollSeen[queue[i].id].status = "pending"
                    /\ InSeq(Handled, queue[i])
             /\ \A i \in DOMAIN Handled :
                    PolicyApproves(Handled[i]) => ~InSeq(queue, Handled[i]))

\* The call has returned: it auto-approved the low decision it read and
\* returned the others, which are pending.
C19_Witness ==
    /\ storeUp /\ pollAuto
    /\ pollArgs # NoCall /\ pollQueue = << >>
    /\ decisions[102].status = "auto_approved"
    /\ decisions[102].resolved_by = "policy"
    /\ decisions[102].choice = API_Tool
    /\ Len(queue) >= 2
    /\ \A i \in DOMAIN queue : queue[i].id # 102


\* The decisions that were pending, and of the severity asked for, when the
\* query of the last get_decision_queue call ran.
PendingWhenRead ==
    {d \in DOMAIN pollSeen :
        /\ pollSeen[d].status = "pending"
        /\ pollArgs.severity # NoValue =>
               pollSeen[d].severity = pollArgs.severity}

\* s is t[1..Len(s)].
IsPrefix(s, t) == Len(s) <= Len(t) /\ s = SubSeq(t, 1, Len(s))

\* C20: get_decision_queue(limit, severity) on an available store returns at
\* most `limit` decisions, all pending when read, oldest first; with a
\* severity, all of that severity, the filter applied before ORDER BY and
\* LIMIT: the rows are the `limit` oldest pending decisions of that severity
\* (all of them when there are fewer), and the list returned is a prefix of
\* them.
C20_QueueOrderLimitFilter ==
    (storeUp /\ pollArgs # NoCall) =>
        /\ Len(results) <= pollArgs.limit
        /\ Len(queue) <= pollArgs.limit
        /\ \A i \in DOMAIN results :
               /\ results[i].id \in PendingWhenRead
               /\ results[i].created_at = pollSeen[results[i].id].created_at
               /\ pollArgs.severity # NoValue =>
                      results[i].severity = pollArgs.severity
        /\ \A i, j \in DOMAIN results :
               i < j => /\ results[i].created_at <= results[j].created_at
                        /\ results[i].id # results[j].id
        /\ Len(results) =
               IF Cardinality(PendingWhenRead) < pollArgs.limit
               THEN Cardinality(PendingWhenRead) ELSE pollArgs.limit
        /\ \A d \in PendingWhenRead :
               (\A i \in DOMAIN results : results[i].id # d) =>
                   \A i \in DOMAIN results :
                       results[i].created_at <= pollSeen[d].created_at
        /\ \A i \in DOMAIN queue : InSeq(results, queue[i])
        /\ \A i, j \in DOMAIN queue :
               i < j => queue[i].created_at <= queue[j].created_at
        /\ pollArgs.severity # NoValue => IsPrefix(queue, results)

\* Asked for one decision of high severity, the call returned decision 103:
\* the oldest pending one of that severity, though decision 102 of low
\* severity is older and decision 101 was written first.
C20_Witness ==
    /\ storeUp
    /\ pollArgs = [limit |-> 1, severity |-> "high"]
    /\ pollQueue = << >>
    /\ Len(queue) = 1
    /\ queue[1].id = 103
    /\ pollSeen[102].status = "pending"
    /\ pollSeen[102].created_at < pollSeen[103].created_at
    /\ pollSeen[101].status = "pending"


\* ------------------------------------------------------- edge feedback
\* Calls of add_fallback_edge, update_edge_feedback and decay_edges a
\* behaviour may hold.
MaxJobs == 3

\* similarity_score values, in hundredths.
Scores == {60}

\* decay_rate values, in hundredths: 0.0, the default 0.05 and 1.0.
Rates == {0, DecayRate, 100}

\* The (from_agent, to_agent) pairs callers pass: an edge of the workflow
\* definition, a pair of Agent nodes without an edge, and a pair whose target
\* is no Agent node.
FeedbackPairs ==
    { << "Reader", "Validator" >>, << "Validator", RPA_Tool >>,
      << "Reader", "Unknown" >> }

\* One served call.
Job(op, from_agent, to_agent, amount) ==
    [op |-> op, from |-> from_agent, to |-> to_agent, amount |-> amount]

\* add_fallback_edge, served by the store as one statement.
AddFallbackEdgeCall ==
    /\ Len(issued) < MaxJobs
    /\ \E e \in FeedbackPairs, score \in Scores :
           /\ graph' = IF storeUp
                       THEN AddFallbackEdge(graph, e[1], e[2], score)
                       ELSE graph
           /\ issued' = Append(issued, Job("add", e[1], e[2], score))
    /\ UNCHANGED << storeUp, decisions, traces, clock, policy, tools, index,
                    workflow, tasks, pollQueue, pollAuto, callVars, external ,
                    metrics, workers, sup >>

\* update_edge_feedback with its default amounts, served as one statement.
FeedbackCall ==
    /\ Len(issued) < MaxJobs
    /\ \E e \in FeedbackPairs, success \in BOOLEAN :
           /\ graph' = UpdateEdgeFeedback(storeUp, graph, e[1], e[2], success,
                                          Reinforce, Decay)
           /\ issued' = Append(issued,
                               IF success
                               THEN Job("reinforce", e[1], e[2], Reinforce)
                               ELSE Job("decay", e[1], e[2], Decay))
    /\ UNCHANGED << storeUp, decisions, traces, clock, policy, tools, index,
                    workflow, tasks, pollQueue, pollAuto, callVars, external ,
                    metrics, workers, sup >>

\* decay_edges, served as one statement.
DecayCall ==
    /\ Len(issued) < MaxJobs
    /\ \E rate \in Rates :
           /\ graph' = DecayEdges(storeUp, graph, rate)
           /\ issued' = Append(issued, Job("decay_all", NoValue, NoValue, rate))
    /\ UNCHANGED << storeUp, decisions, traces, clock, policy, tools, index,
                    workflow, tasks, pollQueue, pollAuto, callVars, external ,
                    metrics, workers, sup >>

\* Callers of the edge methods on a store that holds the sample graph.
InitFeedback ==
    /\ storeUp = TRUE
    /\ graph = SampleGraph
    /\ decisions = << >>
    /\ traces = {}
    /\ clock = 0
    /\ policy = << >>
    /\ tools = PairTools
    /\ index = TRUE
    /\ workflow = << >>
    /\ tasks = << >>
    /\ pollQueue = << >>
    /\ pollAuto = FALSE
    /\ pollArgs = NoCall
    /\ results = << >>
    /\ queue = << >>
    /\ pollSeen = << >>
    /\ pollHit = "unchecked"
    /\ issued = << >>
    /\ metrics = NoMetrics
    /\ workers = << >>
    /\ sup = NoSupervisor
    /\ external = 0

NextFeedback ==
    \/ AddFallbackEdgeCall
    \/ FeedbackCall
    \/ DecayCall

SpecFeedback == InitFeedback /\ [][NextFeedback]_vars

\* The call served in this step.
Served == issued'[Len(issued')]

\* This step serves a call of `op`.
Serves(op) == issued' # issued /\ Served.op = op

\* C21: add_fallback_edge(from, to, score) creates an absent edge with
\* probability = score, uses = 1 and learned = true, adds score and 1 to the
\* probability and uses of an existing one, and in both cases leaves the edge
\* flagged learned = true, an edge of the workflow definition included.
C21_AddFallbackEdgeLearned ==
    [][(Serves("add") /\ Served.from \in graph.agents
                      /\ Served.to \in graph.agents) =>
          LET e == << Served.from, Served.to >>
          IN  /\ e \in DOMAIN graph'.edges
              /\ graph'.edges[e].learned = TRUE
              /\ IF e \in DOMAIN graph.edges
                 THEN /\ graph'.edges[e].probability =
                             graph.edges[e].probability + Served.amount
                      /\ graph'.edges[e].uses = graph.edges[e].uses + 1
                 ELSE /\ graph'.edges[e].probability = Served.amount
                      /\ graph'.edges[e].uses = 1]_vars


\* C22: update_edge_feedback(from, to, success) sets the probability of the
\* edge from -> to to old + amount on success and to old * (1 - amount)
\* otherwise (rounded down to whole hundredths); every other edge, the uses
\* and learned properties of that edge, the Agent nodes and the CAN_HANDLE
\* links stay as they were, and nothing changes when there is no such edge.
C22_FeedbackOneEdge ==
    [][(Serves("reinforce") \/ Serves("decay")) =>
          LET e == << Served.from, Served.to >>
          IN  /\ graph'.agents = graph.agents
              /\ graph'.handles = graph.handles
              /\ DOMAIN graph'.edges = DOMAIN graph.edges
              /\ \A f \in DOMAIN graph.edges \ {e} :
                     graph'.edges[f] = graph.edges[f]
              /\ e \in DOMAIN graph.edges =>
                     /\ graph'.edges[e].uses = graph.edges[e].uses
                     /\ graph'.edges[e].learned = graph.edges[e].learned
                     /\ Served.op = "reinforce" =>
                            graph'.edges[e].probability =
                                graph.edges[e].probability + Served.amount
                     /\ Served.op = "decay" =>
                            /\ graph'.edges[e].probability * 100 <=
                                   graph.edges[e].probability * (100 - Served.amount)
                            /\ graph'.edges[e].probability * 100 >
                                   graph.edges[e].probability * (100 - Served.amount) - 100
              /\ e \notin DOMAIN graph.edges => graph' = graph]_vars

\* A reinforced and then decayed edge Reader -> Validator next to the edge
\* Reader -> ERP, which kept its probability; a call on a pair without an
\* edge came first.
C22_Witness ==
    /\ Len(issued) = 3
    /\ issued[1] = Job("decay", "Validator", RPA_Tool, Decay)
    /\ issued[2] = Job("reinforce", "Reader", "Validator", Reinforce)
    /\ issued[3] = Job("decay", "Reader", "Validator", Decay)
    /\ graph.edges[<< "Reader", "Validator" >>].probability = 99
    /\ graph.edges[<< "Reader", "ERP" >>].probability = 100
    /\ << "Validator", RPA_Tool >> \notin DOMAIN graph.edges


\* C23: decay_edges(rate) multiplies the probability of every learned edge
\* by (1 - rate) (rounded down to whole hundredths) and leaves every other
\* edge as it was; rate 0.0 changes nothing and rate 1.0 sets every learned
\* probability to 0.
C23_DecayAllLearned ==
    [][Serves("decay_all") =>
          /\ graph'.agents = graph.agents
          /\ graph'.handles = graph.handles
          /\ DOMAIN graph'.edges = DOMAIN graph.edges
          /\ \A e \in DOMAIN graph.edges :
                 LET old == graph.edges[e]
                     new == graph'.edges[e]
                 IN  /\ new.learned = old.learned /\ new.uses = old.uses
                     /\ ~old.learned => new = old
                     /\ old.learned =>
                            /\ new.probability * 100 <=
                                   old.probability * (100 - Served.amount)
                            /\ new.probability * 100 >
                                   old.probability * (100 - Served.amount) - 100
                            /\ Served.amount = 100 => new.probability = 0
          /\ Served.amount = 0 => graph' = graph]_vars

\* A learned edge decayed by the default rate and then zeroed by rate 1.0,
\* next to the edges of the workflow definition, which kept probability 1.0.
C23_Witness ==
    /\ Len(issued) = 3
    /\ issued[1] = Job("add", "Validator", RPA_Tool, 60)
    /\ issued[2] = Job("decay_all", NoValue, NoValue, DecayRate)
    /\ issued[3] = Job("decay_all", NoValue, NoValue, 100)
    /\ graph.edges[<< "Validator", RPA_Tool >>].learned
    /\ graph.edges[<< "Validator", RPA_Tool >>].probability = 0
    /\ graph.edges[<< "Reader", "Validator" >>].probability = 100
    /\ graph.edges[<< "Reader", "ERP" >>].probability = 100


\* C24: the probability of every edge in the store is in [0,1] (0..100
\* hundredths) in every state, after any sequence of add_fallback_edge,
\* update_edge_feedback and decay_edges calls with amounts and rates in [0,1].
C24_ProbabilityInUnitInterval ==
    \A e \in DOMAIN graph.edges :
        /\ graph.edges[e].probability >= 0
        /\ graph.edges[e].probability <= 100


\* Supervisor.recommend_tool: the tools it may return. Where the table has no
\* registered tool for the type it returns random.choice(available), any of
\* the registered tools (none, an IndexError, when the registry is empty).
SupervisorRecommendTool(reg, agent) ==
    LET available == ListTools(reg)
        any       == {available[i] : i \in DOMAIN available}
    IN  CASE agent.type = "validation" ->
               IF InSeq(available, API_Tool) THEN {API_Tool} ELSE any
          [] agent.type = "execution" ->
               IF agent.name = "file_upload" /\ InSeq(available, Selenium_RPA_Tool)
               THEN {Selenium_RPA_Tool}
               ELSE IF InSeq(available, RPA_Tool) THEN {RPA_Tool} ELSE any
          [] agent.type = "audit" ->
               IF InSeq(available, API_Tool) THEN {API_Tool} ELSE any
          [] OTHER -> any

\* Nodes of every type the policy table names, and of other types.
RecommendInputs ==
    { Node("n1", "Check", "validation", << >>),
      Node("n2", "Audit", "audit", << >>),
      Node("n3", "file_upload", "execution", << >>),
      Node("n4", "Executor", "execution", << >>),
      Node("n5", "Reader", "generic", << >>),
      Node("n6", "Ingest", "ingest", << >>) }

\* C25: the recommendation is a function of the type and name of the node
\* and of the ordered registry, and follows the table: validation or audit ->
\* API_Tool if registered, else the first tool; execution named file_upload
\* -> Selenium_RPA_Tool, else RPA_Tool, else the first tool; other execution
\* -> RPA_Tool, else the first tool; any other type -> the first tool.
C25_RecommendationDeterministic ==
    \A agent \in RecommendInputs :
        LET listed == ListTools(tools)
            has(n) == \E i \in DOMAIN listed : listed[i] = n
            table  ==
                IF agent.type \in {"validation", "audit"}
                THEN IF has(API_Tool) THEN API_Tool ELSE listed[1]
                ELSE IF agent.type = "execution"
                THEN IF agent.name = "file_upload" /\ has(Selenium_RPA_Tool)
                     THEN Selenium_RPA_Tool
                     ELSE IF has(RPA_Tool) THEN RPA_Tool ELSE listed[1]
                ELSE listed[1]
        IN  listed # << >> =>
                /\ RecommendTool(tools, agent) = table
                /\ SupervisorRecommendTool(tools, agent) = {table}

\* The same for EnhancedOrchestrator.recommend_tool alone.
OrchestratorFollowsTable ==
    \A agent \in RecommendInputs :
        LET listed == ListTools(tools)
            has(n) == \E i \in DOMAIN listed : listed[i] = n
        IN  listed # << >> =>
                RecommendTool(tools, agent) =
                    IF agent.type \in {"validation", "audit"}
                    THEN IF has(API_Tool) THEN API_Tool ELSE listed[1]
                    ELSE IF agent.type = "execution"
                    THEN IF agent.name = "file_upload" /\ has(Selenium_RPA_Tool)
                         THEN Selenium_RPA_Tool
                         ELSE IF has(RPA_Tool) THEN RPA_Tool ELSE listed[1]
                    ELSE listed[1]


\* C26: ToolManager.execute returns a result with success = false for a name
\* that is not registered and for a registered tool that fails, whatever the
\* registry entry, and never raises; execute_with_fallback always returns a
\* result to its caller and has resolved the Decision by then.
C26_ToolFailureIsData ==
    \A a \in DOMAIN tasks :
        LET t == tasks[a]
        IN  /\ \A i \in DOMAIN t.invoked :
                   t.invoked[i].tier # "pipeline" =>
                       t.invoked[i].out \in {"ok", "fail"}
            /\ (Returned(t) /\ ViaFallbackProcedure(t)) => t.resolved # << >>


\* The calls served so far that name the pair e, or every edge.
JobsOn(e) ==
    SelectSeq(issued, LAMBDA j : j.op = "decay_all" \/ << j.from, j.to >> = e)

\* Only add_fallback_edge calls with score s were served for the pair e,
\* and the pair had no edge at the start.
OnlyAdds(e, s) ==
    /\ e \notin DOMAIN SampleGraph.edges
    /\ JobsOn(e) # << >>
    /\ \A i \in DOMAIN JobsOn(e) :
           JobsOn(e)[i].op = "add" /\ JobsOn(e)[i].amount = s

\* C27: no edge update is lost when calls on the same edge are issued
\* concurrently: after k add_fallback_edge(from, to, s) calls on a pair that
\* had no edge, served in any order and mixed with calls on other edges, there
\* is one edge from -> to with uses = k and probability = k * s.
C27_NoLostEdgeUpdate ==
    \A e \in FeedbackPairs, s \in Scores :
        OnlyAdds(e, s) =>
            /\ e \in DOMAIN graph.edges
            /\ graph.edges[e].uses = Len(JobsOn(e))
            /\ graph.edges[e].probability = Len(JobsOn(e)) * s

\* The same for pairs whose two ids are Agent nodes.
NoLostUpdateBetweenAgents ==
    \A e \in FeedbackPairs, s \in Scores :
        (OnlyAdds(e, s) /\ e[1] \in graph.agents /\ e[2] \in graph.agents) =>
            /\ e \in DOMAIN graph.edges
            /\ graph.edges[e].uses = Len(JobsOn(e))
            /\ graph.edges[e].probability = Len(JobsOn(e)) * s


\* ------------------------------------------------------- tool metrics
\* Threads that may be inside update_metrics of one tool in a behaviour.
MaxWorkers == 3

\* A thread that asyncio.to_thread runs, at the first statement of
\* update_metrics, with the `success` it was called with.
Worker(success) == [pc |-> "load_executions", success |-> success, read |-> 0]

\* A branch of the run reaches tool.execute, which calls update_metrics.
UpdateMetricsCall ==
    /\ Len(workers) < MaxWorkers
    /\ \E success \in BOOLEAN : workers' = Append(workers, Worker(success))
    /\ UNCHANGED << storeVars, tools, index, workflow, tasks, pollQueue,
                    pollAuto, callVars, issued, metrics, sup, external >>

\* self.execution_count += 1: the read of the attribute.
LoadExecutionCount(w) ==
    /\ w \in DOMAIN workers
    /\ workers[w].pc = "load_executions"
    /\ workers' = [workers EXCEPT ![w].pc = "store_executions",
                                  ![w].read = metrics.execution_count]
    /\ UNCHANGED << storeVars, tools, index, workflow, tasks, pollQueue,
                    pollAuto, callVars, issued, metrics, sup, external >>

\* self.execution_count += 1: the write of the sum; then `if success`.
StoreExecutionCount(w) ==
    /\ w \in DOMAIN workers
    /\ workers[w].pc = "store_executions"
    /\ metrics' = [metrics EXCEPT !.execution_count = workers[w].read + 1]
    /\ workers' = [workers EXCEPT ![w].pc = IF workers[w].success
                                            THEN "load_successes" ELSE "done"]
    /\ UNCHANGED << storeVars, tools, index, workflow, tasks, pollQueue,
                    pollAuto, callVars, issued, sup, external >>

\* self.success_count += 1: the read of the attribute.
LoadSuccessCount(w) ==
    /\ w \in DOMAIN workers
    /\ workers[w].pc = "load_successes"
    /\ workers' = [workers EXCEPT ![w].pc = "store_successes",
                                  ![w].read = metrics.success_count]
    /\ UNCHANGED << storeVars, tools, index, workflow, tasks, pollQueue,
                    pollAuto, callVars, issued, metrics, sup, external >>

\* self.success_count += 1: the write of the sum.
StoreSuccessCount(w) ==
    /\ w \in DOMAIN workers
    /\ workers[w].pc = "store_successes"
    /\ metrics' = [metrics EXCEPT !.success_count = workers[w].read + 1]
    /\ workers' = [workers EXCEPT ![w].pc = "done"]
    /\ UNCHANGED << storeVars, tools, index, workflow, tasks, pollQueue,
                    pollAuto, callVars, issued, sup, external >>

\* One tool object shared by the threads of concurrent branches.
InitMetrics ==
    /\ storeUp = TRUE
    /\ graph = SampleGraph
    /\ decisions = << >>
    /\ traces = {}
    /\ clock = 0
    /\ policy = << >>
    /\ tools = PairTools
    /\ index = TRUE
    /\ workflow = << >>
    /\ tasks = << >>
    /\ pollQueue = << >>
    /\ pollAuto = FALSE
    /\ pollArgs = NoCall
    /\ results = << >>
    /\ queue = << >>
    /\ pollSeen = << >>
    /\ pollHit = "unchecked"
    /\ issued = << >>
    /\ metrics = NoMetrics
    /\ workers = << >>
    /\ sup = NoSupervisor
    /\ external = 0

NextMetrics ==
    \/ UpdateMetricsCall
    \/ \E w \in 1..MaxWorkers : LoadExecutionCount(w)
    \/ \E w \in 1..MaxWorkers : StoreExecutionCount(w)
    \/ \E w \in 1..MaxWorkers : LoadSuccessCount(w)
    \/ \E w \in 1..MaxWorkers : StoreSuccessCount(w)

SpecMetrics == InitMetrics /\ [][NextMetrics]_vars

\* C28: the counters are updated atomically: success_count never exceeds
\* execution_count, and once the n calls made so far have all returned, m of
\* them with success, execution_count = n and success_count = m.
C28_AtomicCounters ==
    /\ metrics.success_count <= metrics.execution_count
    /\ (\A w \in DOMAIN workers : workers[w].pc = "done") =>
           /\ metrics.execution_count = Len(workers)
           /\ metrics.success_count =
                  Cardinality({w \in DOMAIN workers : workers[w].success})


\* Some edge of the snapshot leads from node `from` to node `to`.
SnapshotEdge(from, to) ==
    /\ InWorkflow(workflow, from)
    /\ \E i \in DOMAIN Agent(workflow, from).next :
           Agent(workflow, from).next[i].target = to

\* C29: the workflow loaded at the start of the run is not changed by any
\* step of the run: it stays the mapping load_workflow returned, whatever the
\* vector tier, the feedback calls and the other callers write to the store,
\* and every attempt below the first one follows an edge of that mapping; a
\* learned edge is written to the store only, and is not traversed in the run
\* that learned it.
C29_SnapshotReadOnly ==
    /\ [][workflow # << >> => workflow' = workflow]_vars
    /\ [](workflow # << >> => workflow = LoadWorkflow(storeUp, LearnedGraph))
    /\ [](\A a \in DOMAIN tasks :
              tasks[a].parent # 0 =>
                  SnapshotEdge(tasks[tasks[a].parent].node, tasks[a].node))

\* The run is over and no other caller has touched the store; its vector
\* tier wrote to the store, whose workflow now differs from the one the run
\* traversed.
C29_Witness ==
    /\ storeUp
    /\ RunComplete
    /\ external = 0
    /\ \E a \in DOMAIN tasks : VectorSucceeded(tasks[a])
    /\ graph # LearnedGraph
    /\ workflow = LoadWorkflow(TRUE, LearnedGraph)
    /\ LoadWorkflow(TRUE, graph) # workflow


\* ------------------------------------------------------- policy reload
\* What reload_policy can load: a policy file, or the empty policy when the
\* file is missing or does not parse.
PolicyVersions == PolicyFiles \cup { << >> }

\* reload_policy, as update_policy of the dashboard calls it after writing
\* the file: self.policy is bound to the newly loaded map.
ReloadPolicy ==
    /\ \E new \in PolicyVersions \ {policy} : policy' = new
    /\ UNCHANGED << storeUp, graph, decisions, traces, clock, tools, index,
                    workflow, tasks, pollQueue, pollAuto, callVars, jobVars,
                    external >>

\* A connector whose decision queue is read while the policy is reloaded, on
\* a store that holds decisions of low and high severity.
InitReload ==
    /\ storeUp = TRUE
    /\ graph = SampleGraph
    /\ decisions = StoredDecisions
    /\ traces = {}
    /\ clock = 3
    /\ policy \in PolicyFiles
    /\ tools = PairTools
    /\ index = TRUE
    /\ workflow = << >>
    /\ tasks = << >>
    /\ pollQueue = << >>
    /\ pollAuto = FALSE
    /\ pollArgs = NoCall
    /\ results = << >>
    /\ queue = << >>
    /\ pollSeen = << >>
    /\ pollHit = "unchecked"
    /\ issued = << >>
    /\ metrics = NoMetrics
    /\ workers = << >>
    /\ sup = NoSupervisor
    /\ external = 0

NextReload ==
    \/ RunWorkflow
    \/ \E a \in Attempts : AgentStart(a)
    \/ \E a \in Attempts : InvokeRecommended(a)
    \/ \E a \in Attempts : InvokeFallback(a)
    \/ \E a \in Attempts : VectorFallback(a)
    \/ \E a \in Attempts : WriteTrace(a)
    \/ \E a \in Attempts : EvaluateEdges(a)
    \/ \E a \in Attempts : Join(a)
    \/ PollRead
    \/ PollCheck
    \/ PollStep
    \/ ReloadPolicy

SpecReload == InitReload /\ [][NextReload]_vars

\* C30: a get_decision_queue call that interleaves with reload_policy treats
\* each decision by one whole policy, the old or the new: a decision it read
\* is in the list it returns unless some policy version auto-approves its
\* severity. The call does not fail, and does not return an empty list when
\* it read decisions no policy auto-approves.
C30_ReloadAtomicForReaders ==
    (pollArgs # NoCall /\ pollQueue = << >> /\ pollAuto) =>
        \A i \in DOMAIN results :
            \/ InSeq(queue, results[i])
            \/ \E pol \in PolicyVersions : AutoApprove(pol, results[i].severity)


\* ------------------------------------------------- outcome of the dispatch
\* Some tool invocation of the attempt succeeded.
SomeInvocationSucceeded(t) == \E i \in DOMAIN t.invoked : t.invoked[i].out = "ok"

\* C31: once the dispatch of a node attempt has returned, its Decision is
\* approved iff some tool invocation of the attempt succeeded and rejected iff
\* none did, and the trace of the attempt has status success iff the result
\* the dispatch returned has success = true, for every node type and every
\* result the dispatch can return.
C31_StatusAgreesWithOutcome ==
    \A a \in DOMAIN tasks :
        LET t == tasks[a]
        IN  /\ (Returned(t) /\ a \in DOMAIN decisions) =>
                   /\ decisions[a].status = "approved" <=> SomeInvocationSucceeded(t)
                   /\ decisions[a].status = "rejected" <=> ~SomeInvocationSucceeded(t)
            /\ \A tr \in traces :
                   tr.trace_id = a =>
                       (tr.status = "success" <=> t.result.success)


\* C32: for every node type, the first tool invoked for a node attempt is the
\* tool the attempt's Decision names as its recommendation, and the invocation
\* is step 1 of execute_with_fallback: no node type is dispatched another way.
C32_FirstToolIsRecommendation ==
    \A a \in DOMAIN tasks :
        LET t == tasks[a]
        IN  t.invoked # << >> =>
                /\ t.invoked[1].tool = t.rec
                /\ t.invoked[1].tier = "recommended"
                /\ a \in DOMAIN decisions =>
                       decisions[a].recommendation = t.invoked[1].tool


\* ------------------------------------------------------------- a hung tool
\* A workflow that forks at its entry: Reader starts Validator and ERP at
\* once.
ForkGraph ==
    [agents  |-> {"Reader", "Validator", "ERP"},
     handles |-> << "Reader", "Validator", "ERP" >>,
     edges   |-> ( << "Reader", "Validator" >> :> Rel(100, FALSE, 0) ) @@
                 ( << "Reader", "ERP" >>       :> Rel(100, FALSE, 0) )]

\* self.tools.execute of step 1 or step 2 is entered and never returns: the
\* worker thread of this attempt stays in the call.
HangInvocation(a) ==
    /\ a \in DOMAIN tasks
    /\ tasks[a].pc = "dispatch"
    /\ tasks[a].stage \in {"rec", "fb"}
    /\ external < MaxExternal
    /\ LET t    == tasks[a]
           tool == IF t.stage = "rec" THEN t.rec
                   ELSE FallbackOrder(tools, t.rec)[t.idx]
           tier == IF t.stage = "rec" THEN "recommended" ELSE "fallback"
       IN  tasks' = [tasks EXCEPT ![a] =
               [t EXCEPT !.invoked = Append(@, Invocation(tool, "hung", tier)),
                         !.stage = "hung"]]
    /\ external' = external + 1
    /\ UNCHANGED << storeVars, tools, index, workflow, pollQueue, pollAuto,
                    callVars, jobVars >>

InitHang ==
    /\ storeUp = TRUE
    /\ graph = ForkGraph
    /\ decisions = << >>
    /\ traces = {}
    /\ clock = 0
    /\ policy = << >>
    /\ tools = PairTools
    /\ index = TRUE
    /\ workflow = << >>
    /\ tasks = << >>
    /\ pollQueue = << >>
    /\ pollAuto = FALSE
    /\ pollArgs = NoCall
    /\ results = << >>
    /\ queue = << >>
    /\ pollSeen = << >>
    /\ pollHit = "unchecked"
    /\ issued = << >>
    /\ metrics = NoMetrics
    /\ workers = << >>
    /\ sup = NoSupervisor
    /\ external = 0

NextHang ==
    \/ RunWorkflow
    \/ \E a \in Attempts : AgentStart(a)
    \/ \E a \in Attempts : InvokeRecommended(a)
    \/ \E a \in Attempts : InvokeFallback(a)
    \/ \E a \in Attempts : VectorFallback(a)
    \/ \E a \in Attempts : HangInvocation(a)
    \/ \E a \in Attempts : WriteTrace(a)
    \/ \E a \in Attempts : EvaluateEdges(a)
    \/ \E a \in Attempts : Join(a)

\* The steps of attempt a: its coroutine and its worker thread.
AttemptStep(a) ==
    \/ AgentStart(a)
    \/ InvokeRecommended(a)
    \/ InvokeFallback(a)
    \/ VectorFallback(a)
    \/ WriteTrace(a)
    \/ EvaluateEdges(a)
    \/ Join(a)

\* The event loop runs every coroutine that is ready, and a worker thread
\* whose tool call can return does return.
SpecHang ==
    /\ InitHang
    /\ [][NextHang]_vars
    /\ \A a \in Attempts : WF_vars(AttemptStep(a))

\* The tool call of attempt a has not returned and never will.
Hung(a) == a \in DOMAIN tasks /\ tasks[a].stage = "hung"

\* The attempts of the branch that starts at attempt b, b included.
Branch(b) == {c \in DOMAIN tasks : c = b \/ b \in Ancestors(tasks, c)}

\* Attempts a and b were spawned from the same node attempt.
Siblings(a, b) ==
    /\ a \in DOMAIN tasks
    /\ b \in DOMAIN tasks
    /\ a # b
    /\ tasks[a].parent # 0
    /\ tasks[a].parent = tasks[b].parent

\* The branch of attempt b ran to completion: every attempt of it resolved
\* its Decision, wrote its trace and returned, its successors included.
BranchComplete(b) ==
    \A c \in Branch(b) :
        /\ tasks[c].pc = "done"
        /\ c \in DOMAIN decisions
        /\ decisions[c].status # "pending"
        /\ HasTrace(c)

Executed(a) == tasks[a].pc \notin {"new", "done"} \/ tasks[a].rec # NoValue

\* C34: within one run each node is executed at most once, also when it is
\* reachable through two firing paths, as agent_auditor is in the default
\* workflow through agent_validator and through agent_executor.
C34_NodeExecutedOnce ==
    \A a \in DOMAIN tasks : \A b \in DOMAIN tasks :
        (a # b /\ Executed(a) /\ Executed(b)) => tasks[a].node # tasks[b].node


\* A step of get_decision_queue: the query, a test of the policy, or a turn
\* of the loop.
QueueCallStep ==
    << pollQueue, pollAuto, callVars >>' # << pollQueue, pollAuto, callVars >>

\* Decision d was among the first `limit` rows of the query of the call.
WithinLimit(d) ==
    Cardinality({e \in PendingWhenRead :
                    pollSeen[e].created_at < pollSeen[d].created_at})
        < pollArgs.limit

\* C35: a step of get_decision_queue changes no Decision when
\* auto_apply_policy is False; when it is True the only Decisions it changes
\* were pending when the call read them, match its severity filter, are among
\* the first `limit` by creation time, and have a severity with
\* auto_approve; the change sets status, choice and actor only. Decisions of
\* another severity, beyond the limit or terminal when read are left as they
\* were, and no Decision is created.
C35_ReadEffectConfined ==
    [][QueueCallStep =>
          /\ DOMAIN decisions' = DOMAIN decisions
          /\ \A d \in DOMAIN decisions :
                 decisions'[d] # decisions[d] =>
                     /\ pollAuto
                     /\ d \in PendingWhenRead
                     /\ WithinLimit(d)
                     /\ AutoApprove(policy, pollSeen[d].severity)
                     /\ decisions'[d] =
                            [decisions[d] EXCEPT
                                !.status = "auto_approved",
                                !.choice = pollSeen[d].recommendation,
                                !.resolved_by = "policy"]]_vars

\* A call with auto_apply_policy, limit 1 and no severity filter has returned:
\* it auto-approved decision 102, the oldest pending one, and the three other
\* stored decisions are as they were.
C35_Witness ==
    /\ storeUp /\ pollAuto
    /\ pollArgs = [limit |-> 1, severity |-> NoValue]
    /\ pollQueue = << >>
    /\ decisions[102].status = "auto_approved"
    /\ \A d \in {101, 103, 104} : decisions[d] = StoredDecisions[d]


\* The decisions pending when the call read the store that no policy rule
\* auto-approves: those still requiring manual action.
ManualWhenRead ==
    {d \in PendingWhenRead : ~AutoApprove(policy, pollSeen[d].severity)}

\* C36: with auto_apply_policy, get_decision_queue(limit) returns the `limit`
\* oldest pending decisions that still require manual action: when at least
\* `limit` pending decisions are not auto-approvable the list returned has
\* exactly `limit` entries, however many older auto-approvable pending
\* decisions precede them.
C36_QueueFilledToLimit ==
    (storeUp /\ pollAuto /\ pollArgs # NoCall /\ pollQueue = << >>) =>
        (Cardinality(ManualWhenRead) >= pollArgs.limit =>
             Len(queue) = pollArgs.limit)


\* The place of a tier in execute_with_fallback.
TierRank(tier) ==
    CASE tier = "recommended" -> 1
      [] tier = "fallback" -> 2
      [] OTHER -> 3

\* C37: within one execute_with_fallback call the invocations are made one
\* after the other, each after the one before it returned a failure, in the
\* order recommended, fallback, vector; in steps 1-2 each registered tool is
\* invoked at most once and the recommended tool is not invoked again in
\* step 2; step 3 invokes at most one tool; and the invocations are at most
\* the number of registered tools plus 2.
C37_BoundedSequentialSearch ==
    \A a \in DOMAIN tasks :
        LET t   == tasks[a]
            log == t.invoked
        IN  ViaFallbackProcedure(t) =>
                /\ \A i \in DOMAIN log : i < Len(log) => log[i].out = "fail"
                /\ \A i, j \in DOMAIN log :
                       i < j => /\ TierRank(log[i].tier) <= TierRank(log[j].tier)
                                /\ TierRank(log[j].tier) <= 2 =>
                                       log[i].tool # log[j].tool
                /\ Len(TierCalls(t, "recommended")) = 1
                /\ Len(TierCalls(t, "vector")) <= 1
                /\ \A i \in DOMAIN log :
                       log[i].tier = "fallback" =>
                           /\ log[i].tool # t.rec
                           /\ InSeq(ListTools(tools), log[i].tool)
                /\ Len(log) <= Len(ListTools(tools)) + 2

\* With three registered tools every tier failed: the recommended tool, the
\* two others once each, then the tool the index selected.
C37_Witness ==
    \E a \in DOMAIN tasks :
        /\ Len(ListTools(tools)) = 3
        /\ Returned(tasks[a])
        /\ Len(tasks[a].invoked) = 4
        /\ Len(TierCalls(tasks[a], "fallback")) = 2
        /\ Len(TierCalls(tasks[a], "vector")) = 1
        /\ \A i \in DOMAIN tasks[a].invoked : tasks[a].invoked[i].out = "fail"


\* The ids of the nodes of the workflow the run traverses.
WorkflowNodes == {workflow[i].id : i \in DOMAIN workflow}

\* An edge of the store that this step created or changed.
EdgeWritten(e) ==
    /\ e \in DOMAIN graph'.edges
    /\ e \notin DOMAIN graph.edges \/ graph'.edges[e] # graph.edges[e]

\* C38: the tool step 3 invokes is a name of the index built at construction
\* from the registered tools, so it is a registered tool that steps 1-2 of the
\* same attempt already invoked and saw fail; and the edge a successful step 3
\* writes goes from the executing node to that tool name, which is no node of
\* the workflow.
C38_VectorToolAlreadyTried ==
    /\ [](\A a \in DOMAIN tasks :
             LET log == tasks[a].invoked
             IN  \A i \in DOMAIN log :
                     log[i].tier = "vector" =>
                         /\ InSeq(ListTools(tools), log[i].tool)
                         /\ log[i].tool \notin WorkflowNodes
                         /\ \E j \in 1..(i - 1) :
                                /\ log[j].tool = log[i].tool
                                /\ log[j].tier \in {"recommended", "fallback"}
                                /\ log[j].out = "fail")
    /\ [][tasks' # tasks =>
             \A e \in DOMAIN graph'.edges :
                 EdgeWritten(e) =>
                     /\ InSeq(ListTools(tools), e[2])
                     /\ e[2] \notin WorkflowNodes
                     /\ \E a \in DOMAIN tasks' :
                            /\ VectorSucceeded(tasks'[a])
                            /\ tasks'[a].node = e[1]
                            /\ tasks'[a].invoked[Len(tasks'[a].invoked)].tool = e[2]]_vars

\* API_Tool failed as the recommended tool of Reader, RPA_Tool failed after
\* it, and API_Tool, selected again by the index, succeeded: the store holds
\* a learned edge from Reader to API_Tool, which the workflow does not contain.
C38_Witness ==
    \E a \in DOMAIN tasks :
        /\ tasks[a].node = "Reader"
        /\ tasks[a].invoked = << Invocation(API_Tool, "fail", "recommended"),
                                 Invocation(RPA_Tool, "fail", "fallback"),
                                 Invocation(API_Tool, "ok", "vector") >>
        /\ << "Reader", API_Tool >> \in DOMAIN graph.edges
        /\ graph.edges[<< "Reader", API_Tool >>].learned
        /\ API_Tool \notin WorkflowNodes


\* ------------------------------------------------- the sequential Supervisor
\* The sample graph with a NEXT relationship of probability 0 ahead of one of
\* probability 1.
ZeroEdgeGraph ==
    [SampleGraph EXCEPT !.handles = << "Reader", "Validator", "ERP" >>,
                        !.edges[<< "Reader", "Validator" >>] = Rel(0, FALSE, 0)]

RECURSIVE Upto(_, _)
\* upto + p at edge i of the loop of choose_next: the probabilities of the
\* edges up to and including i, `probability or 0` each.
Upto(edges, i) ==
    IF i = 0 THEN 0 ELSE Upto(edges, i - 1) + edges[i].probability

\* Supervisor.choose_next: r = random.random() * total_prob, then the first
\* edge with upto + p >= r; the index of that edge, 0 for `return None`.
\* Probabilities and the sample are in hundredths.
ChooseNext(edges, sample) ==
    LET total_prob == Upto(edges, Len(edges))
        hits == {i \in DOMAIN edges : 100 * Upto(edges, i) >= sample * total_prob}
    IN  IF hits = {} THEN 0
        ELSE CHOOSE i \in hits : \A j \in hits : i <= j

\* How Supervisor.execute_with_fallback can end: the resolve_decision call it
\* makes, the success of the result it returns, and the tool an edge was
\* learned for.
SupervisorOutcomes(reg, agent, rec) ==
    LET names == ListTools(reg)
        order == FallbackOrder(reg, rec)
        best  == names[Nearest(names, agent.name)]
        end(call, success, learned) ==
            [call |-> call, success |-> success, learned |-> learned]
    IN  {end(PolicyCall(rec), TRUE, NoValue) : x \in {r \in {rec} : "ok" \in Outcomes(reg, r)}}
        \cup {end(FallbackCall(order[i]), TRUE, NoValue) :
                 i \in {k \in DOMAIN order : "ok" \in Outcomes(reg, order[k])}}
        \cup {end(VectorCall(b), TRUE, b) : b \in {r \in {best} : "ok" \in Outcomes(reg, r)}}
        \cup {end(Call(rec, "rejected", "system"), FALSE, NoValue)}

\* Supervisor.run_workflow up to its loop.
SupervisorRunWorkflow ==
    /\ sup.pc = "idle"
    /\ LET wf == LoadWorkflow(storeUp, graph)
       IN  sup' = [sup EXCEPT !.pc = "run", !.workflow = wf,
                              !.current = EntryNode(wf)]
    /\ UNCHANGED << storeVars, tools, index, workflow, tasks, pollQueue, pollAuto,
                    callVars, issued, metrics, workers, external >>

\* One turn of `while current`: workflow[current], the Decision, the
\* dispatch, the trace, then choose_next on the edges of the node.
SupervisorStep ==
    /\ sup.pc = "run"
    /\ sup.steps < MaxAttempts
    /\ IF sup.current = None
       THEN /\ sup' = [sup EXCEPT !.pc = "ended"]
            /\ UNCHANGED << graph, decisions, traces, clock >>
       ELSE IF ~InWorkflow(sup.workflow, sup.current)
       THEN /\ sup' = [sup EXCEPT !.pc = "raised"]
            /\ UNCHANGED << graph, decisions, traces, clock >>
       ELSE LET agent == Agent(sup.workflow, sup.current)
                id    == 200 + sup.steps
            IN  \E rec \in SupervisorRecommendTool(tools, agent) :
                \E o \in SupervisorOutcomes(tools, agent, rec) :
                \E sample \in Samples :
                  LET chosen == IF agent.next = << >> THEN 0
                                ELSE ChooseNext(agent.next, sample)
                  IN  /\ decisions' =
                             IF storeUp
                             THEN ResolveDecision(
                                      SaveDecision(decisions, id, agent.name, rec,
                                                   "medium", "pending", clock + 1),
                                      id, o.call.choice, o.call.status,
                                      o.call.resolved_by)
                             ELSE decisions
                      /\ clock' = IF storeUp THEN clock + 1 ELSE clock
                      /\ graph' =
                             IF storeUp /\ o.learned # NoValue
                             THEN AddFallbackEdge(graph, agent.id, o.learned,
                                      Distance(agent.name, o.learned) * 100)
                             ELSE graph
                      /\ traces' =
                             IF storeUp
                             THEN traces \cup {Trace(id, sup.current,
                                      IF o.success THEN "success" ELSE "failure")}
                             ELSE traces
                      /\ sup' = [sup EXCEPT
                             !.current = IF chosen = 0 THEN None
                                         ELSE agent.next[chosen].target,
                             !.steps = @ + 1,
                             !.edges = agent.next,
                             !.sample = sample,
                             !.chosen = chosen]
    /\ UNCHANGED << storeUp, policy, tools, index, workflow, tasks, pollQueue,
                    pollAuto, callVars, issued, metrics, workers, external >>

InitSupervisor ==
    /\ storeUp \in BOOLEAN
    /\ graph \in {SampleGraph, CyclicGraph, ZeroEdgeGraph}
    /\ decisions = << >>
    /\ traces = {}
    /\ clock = 0
    /\ policy = << >>
    /\ tools = PairTools
    /\ index = TRUE
    /\ workflow = << >>
    /\ tasks = << >>
    /\ pollQueue = << >>
    /\ pollAuto = FALSE
    /\ pollArgs = NoCall
    /\ results = << >>
    /\ queue = << >>
    /\ pollSeen = << >>
    /\ pollHit = "unchecked"
    /\ issued = << >>
    /\ metrics = NoMetrics
    /\ workers = << >>
    /\ sup = NoSupervisor
    /\ external = 0

NextSupervisor ==
    \/ SupervisorRunWorkflow
    \/ SupervisorStep

SpecSupervisor == InitSupervisor /\ [][NextSupervisor]_vars

\* C39: choose_next on a non-empty edge list returns the target of exactly
\* one edge, never the target of an edge whose probability is 0 (or null)
\* when another edge has a positive probability; and Supervisor.run_workflow
\* ends the run without raising when the chosen target is null or absent
\* from the workflow.
C39_ChooseNextAndEnd ==
    /\ sup.edges # << >> =>
           /\ sup.chosen \in DOMAIN sup.edges
           /\ sup.edges[sup.chosen].probability = 0 =>
                  \A i \in DOMAIN sup.edges : sup.edges[i].probability = 0
    /\ sup.pc # "raised"


\* ------------------------------------------------- save_decision on an id
\* A caller of save_decision that passes the id of a Decision the store
\* already holds, as the example usage of the connector does with its fixed
\* id every time it is run.
SaveDecisionCall ==
    /\ external < MaxExternal
    /\ \E id \in DOMAIN decisions :
           decisions' = IF storeUp
                        THEN SaveDecision(decisions, id, "Executor", RPA_Tool,
                                          "low", "pending", clock + 1)
                        ELSE decisions
    /\ clock' = IF storeUp THEN clock + 1 ELSE clock
    /\ external' = external + 1
    /\ UNCHANGED << storeUp, graph, traces, policy, tools, index, workflow,
                    tasks, pollQueue, pollAuto, callVars, jobVars >>

\* Runs of the orchestrator on a store that already holds decisions, with
\* the decision queue being read and save_decision called on stored ids.
NextSave ==
    \/ RunWorkflow
    \/ \E a \in Attempts : AgentStart(a)
    \/ \E a \in Attempts : InvokeRecommended(a)
    \/ \E a \in Attempts : InvokeFallback(a)
    \/ \E a \in Attempts : VectorFallback(a)
    \/ \E a \in Attempts : WriteTrace(a)
    \/ \E a \in Attempts : EvaluateEdges(a)
    \/ \E a \in Attempts : Join(a)
    \/ PollRead
    \/ PollCheck
    \/ PollStep
    \/ SaveDecisionCall

SpecSave == InitConnector /\ [][NextSave]_vars

\* save_decision wrote Decision d in this step: only it sets created_at.
SavedAgain(d) ==
    /\ d \in DOMAIN decisions
    /\ decisions'[d].created_at # decisions[d].created_at

\* C40: save_decision never moves a Decision out of a terminal status: called
\* with the id of a Decision that is approved, auto_approved or rejected it
\* leaves the status as it is; and the save_decision of a node attempt
\* creates a Decision under an id the store did not hold.
C40_SaveKeepsTerminal ==
    [][/\ \A d \in DOMAIN decisions :
              (SavedAgain(d) /\ decisions[d].status \in TerminalStatuses) =>
                  decisions'[d].status = decisions[d].status
       /\ (tasks' # tasks /\ decisions' # decisions) =>
              \A d \in DOMAIN decisions : ~SavedAgain(d)]_vars

====
